---- MODULE Spec2Model ----
(***************************************************************************)
(* Deployment control plane: the controller (backend/main.py: app rows,    *)
(* port pool, watchdog) and the host agent (agent/agent.py: VRAM           *)
(* allocator, process registry, build and run, supervisors) with the       *)
(* route store (proxy/proxy.py).                                           *)
(***************************************************************************)
EXTENDS Integers, Sequences, FiniteSets, TLC

\* ------------------------------------------------------------------ bounds
NumGpus == 2
GpuTotal == 3
MaxVram == 4
NumPorts == 2
MaxRequests == 3
MaxTicks == 3

Gpus == 0 .. (NumGpus - 1)
Apps == {"a1", "a2"}

\* ------------------------------------------------- python dict primitives
EmptyDict == [x \in {} |-> 0]
Get(d, k) == IF k \in DOMAIN d THEN d[k] ELSE 0
Put(d, k, v) == [x \in (DOMAIN d) \cup {k} |-> IF x = k THEN v ELSE d[x]]
Pop(d, k) == [x \in (DOMAIN d) \ {k} |-> d[x]]

\* ------------------------------------------------------ program constants
PORT_START == 9000
PORT_END == PORT_START + NumPorts
Ports == PORT_START .. (PORT_END - 1)
NoPort == 0          \* the port column is NULL
NoBeat == -1         \* the last_heartbeat column is NULL
NoGpus == <<>>       \* the gpus column is NULL
NoUpload == 0        \* no upload has been answered yet
WATCHDOG_SLEEP == 30
HEARTBEAT_MAX_AGE == 60
Terminal == {"error", "finished", "stopped"}

VARIABLES
    smi,          \* nvidia-smi readings: gpu index -> [total, used]
    GPU_USAGE,    \* agent: gpu index -> reserved amount (a dict)
    GPU_LOCK,     \* agent: "free" or "held" (threading.Lock, not reentrant)
    PROCESSES,    \* agent: app_id -> [proc, gpus, vram_required] (a dict)
    lastCall,     \* the last get_available_gpu call: arguments and result
    routes,       \* proxy: app_id -> port (routes.json, a dict)
    rows,         \* controller: apps table, app_id -> row (a dict)
    AVAILABLE_PORTS, \* controller: the free port pool
    now,          \* time.time()
    requests,     \* client requests issued so far
    ctlRun,       \* controller: upload/restart handler awaiting the agent
    agtReq,       \* agent: /run or /restart request being handled
    ctlStop,      \* controller: background stop task and the agent's /stop
    bar,          \* agent: build_and_run background task per app
    proc,         \* the workload process of each app and the port it serves
    orphans,      \* ports bound by workloads the registry no longer refers to
    hb,           \* agent: heartbeat_loop task alive
    rdy,          \* agent: readiness prober task
    stopFinal,    \* history: apps whose /stop completed, no /restart since
    lastUpload,   \* history: the status code of the last upload answered
    px,           \* proxy module: lock, routes document, config, callers
    cln,          \* agent: position of each app's cleanup (/stop, deleted app)
    det           \* controller: the upload bundle whose type is being detected

gpuVars == <<smi, GPU_USAGE, GPU_LOCK, PROCESSES, lastCall>>
appVars == <<routes, rows, AVAILABLE_PORTS, now, requests, ctlRun, agtReq,
             ctlStop, bar, proc, orphans, hb, rdy, stopFinal,
             lastUpload>>
sysVars == <<appVars, px, cln, det>>
vars == <<smi, GPU_USAGE, GPU_LOCK, PROCESSES, lastCall, routes, rows,
          AVAILABLE_PORTS, now, requests, ctlRun, agtReq, ctlStop, bar, proc,
          orphans, hb, rdy, stopFinal, lastUpload, px, cln, det>>

\* ------------------------------------------------------ controller: store
Row(status, port, beat, gpus, vram) ==
    [status |-> status, port |-> port, last_heartbeat |-> beat,
     gpus |-> gpus, vram_required |-> vram]

\* save_status. On an existing row only the fields given (not None) are
\* written. For an unknown app_id the INSERT names 13 columns and 12
\* placeholders: sqlite3 raises OperationalError and no row is written.
save_status(R, a, status, port, beat, gpus) ==
    IF a \notin DOMAIN R THEN R
    ELSE Put(R, a, [R[a] EXCEPT
            !.status = status,
            !.port = IF port # NoPort THEN port ELSE @,
            !.last_heartbeat = IF beat # NoBeat THEN beat ELSE @,
            !.gpus = IF gpus # NoGpus THEN gpus ELSE @])

\* release_app_port: the row's port goes back to the pool and is set NULL
release_app_port(C, a) ==
    IF a \in DOMAIN C.rows /\ C.rows[a].port # NoPort
    THEN [rows |-> Put(C.rows, a, [C.rows[a] EXCEPT !.port = NoPort]),
          pool |-> C.pool \cup {C.rows[a].port}]
    ELSE C

\* a variant in which the INSERT branch of save_status works: the callback for
\* an unknown app creates the row
update_status_upserts(C, a, status, gpus, t) ==
    [rows |-> Put(C.rows, a, Row(status, NoPort,
                                 IF status = "running" THEN t ELSE NoBeat,
                                 gpus, 0)),
     pool |-> C.pool, code |-> 200]

\* POST /update_status: 404 for an unknown app; last_heartbeat = now iff the
\* status is running; a terminal status releases the port
update_status(C, a, status, gpus, t) ==
    IF a \notin DOMAIN C.rows
    THEN [rows |-> C.rows, pool |-> C.pool, code |-> 404]
    ELSE LET saved == [rows |-> save_status(C.rows, a, status, NoPort,
                                   IF status = "running" THEN t ELSE NoBeat,
                                   gpus),
                       pool |-> C.pool]
             done == IF status \in Terminal THEN release_app_port(saved, a)
                     ELSE saved
         IN  [rows |-> done.rows, pool |-> done.pool, code |-> 200]

\* a variant of /heartbeat that also marks the app running
heartbeat_marks_running(C, a, t) ==
    IF a \notin DOMAIN C.rows
    THEN [rows |-> C.rows, pool |-> C.pool, code |-> 404]
    ELSE [rows |-> Put(C.rows, a, [C.rows[a] EXCEPT !.last_heartbeat = t,
                                                    !.status = "running"]),
          pool |-> C.pool, code |-> 200]

\* a variant of /heartbeat that answers 200 for an unknown app
heartbeat_unknown_ok(C, a, t) ==
    IF a \notin DOMAIN C.rows
    THEN [rows |-> C.rows, pool |-> C.pool, code |-> 200]
    ELSE [rows |-> Put(C.rows, a, [C.rows[a] EXCEPT !.last_heartbeat = t]),
          pool |-> C.pool, code |-> 200]

\* POST /heartbeat
heartbeat(C, a, t) ==
    IF a \notin DOMAIN C.rows
    THEN [rows |-> C.rows, pool |-> C.pool, code |-> 404]
    ELSE [rows |-> Put(C.rows, a, [C.rows[a] EXCEPT !.last_heartbeat = t]),
          pool |-> C.pool, code |-> 200]

Ctl == [rows |-> rows, pool |-> AVAILABLE_PORTS]

\* is_port_free: the bind succeeds unless a workload is listening on the port
LivePorts(pr) == {pr[a].port : a \in {x \in Apps : pr[x].st = "ready"}}
is_port_free(p) == p \notin (LivePorts(proc) \cup orphans)

\* ---------------------------------------------------------- proxy: routes
\* a variant of the handlers' first statement that leaves the route to later
add_route_deferred(R, a, port) == R
add_route(R, a, port) == Put(R, a, port)
remove_route(R, a) == IF a \in DOMAIN R THEN Pop(R, a) ELSE R

\* ------------------------------------------------ proxy: the module itself
\* The routes document maps an app id to its info: the port and, only when
\* the argument is truthy, allow_ips and auth_header (NoIps, NoHeader: the key
\* is absent). json.dump / json.load of such a document (string keys, int
\* port, list of strings) gives the same mapping back.
NoIps == <<>>
NoHeader == ""
RouteIds == {"x", "y"}
IpLists == {NoIps, <<"10.0.0.1">>}
Headers == {NoHeader, "X-Api-Key"}
RouteInfo(port, allow_ips, auth_header) ==
    [port |-> port, allow_ips |-> allow_ips, auth_header |-> auth_header]

\* add_route between load_routes and save_routes: routes[app_id] = {"port":
\* port}, then the optional keys
add_route_merging(D, x, port, allow_ips, auth_header) ==
    Put(D, x, RouteInfo(port,
                IF allow_ips = NoIps /\ x \in DOMAIN D THEN D[x].allow_ips
                ELSE allow_ips,
                IF auth_header = NoHeader /\ x \in DOMAIN D
                THEN D[x].auth_header ELSE auth_header))
add_route_map(D, x, port, allow_ips, auth_header) ==
    Put(D, x, RouteInfo(port, allow_ips, auth_header))

\* remove_route between load_routes and save_routes; written says whether
\* the branch that saves, regenerates and reloads is taken
remove_route_rewrites(D, x) ==
    [map |-> IF x \in DOMAIN D THEN Pop(D, x) ELSE D, written |-> TRUE]
remove_route_map(D, x) ==
    IF x \in DOMAIN D THEN [map |-> Pop(D, x), written |-> TRUE]
    ELSE [map |-> D, written |-> FALSE]

\* generate_config: one location block per entry, with the proxied port, the
\* allow lines and the header test ('-' replaced by '_', lower case)
HeaderVar(h) ==
    IF h = NoHeader THEN NoHeader
    ELSE IF h = "X-Api-Key" THEN "$http_x_api_key" ELSE "$http_other"
generate_config(D) ==
    [x \in DOMAIN D |-> [proxy_pass |-> D[x].port, allow |-> D[x].allow_ips,
                         deny_all |-> D[x].allow_ips # NoIps,
                         header_test |-> HeaderVar(D[x].auth_header)]]

\* a call of the module: its operation and arguments
RouteCalls ==
    [op : {"add"}, id : RouteIds, port : Ports, allow_ips : IpLists,
     auth_header : Headers]
    \cup [op : {"remove"}, id : RouteIds, port : {NoPort},
          allow_ips : {NoIps}, auth_header : {NoHeader}]
NoCall == [op |-> "none", id |-> "x", port |-> NoPort, allow_ips |-> NoIps,
           auth_header |-> NoHeader]

\* what a call does to a map
RECURSIVE ApplyAll(_, _)
ApplyCall(D, c) ==
    IF c.op = "add"
    THEN add_route_map(D, c.id, c.port, c.allow_ips, c.auth_header)
    ELSE remove_route_map(D, c.id).map
ApplyAll(D, cs) ==
    IF cs = <<>> THEN D ELSE ApplyAll(ApplyCall(D, Head(cs)), Tail(cs))

\* the threads that call the module, the state of a call, and the module
\* before any call: no routes.json, no apps.conf
Threads == {"t1", "t2"}
MaxRouteCalls == 3
Idle == [pc |-> "idle", call |-> NoCall, map |-> EmptyDict, wrote |-> FALSE,
         generated |-> FALSE, reloaded |-> FALSE]
NoProxy == [lock |-> "free", doc |-> EmptyDict, conf |-> EmptyDict,
            order |-> <<>>, th |-> [t \in Threads |-> Idle]]

\* with ROUTE_LOCK: the lock is taken when nobody holds it
acquire_unlocked(lock) == TRUE
acquire(lock) == lock = "free"

\* ------------------------------------------------------ agent: allocator
\* reserve_gpus body: GPU_USAGE[idx] = GPU_USAGE.get(idx, 0) + amount
reserve_gpus(G, usage) ==
    [x \in (DOMAIN G) \cup (DOMAIN usage) |->
        IF x \in DOMAIN usage THEN Get(G, x) + usage[x] ELSE G[x]]

\* release_gpus body: keep the remainder if it is positive, else pop the key
release_gpus(G, usage) ==
    LET rem(x) == Get(G, x) - usage[x]
        dom == {x \in (DOMAIN G) \cup (DOMAIN usage) :
                    x \in DOMAIN usage => rem(x) > 0}
    IN  [x \in dom |-> IF x \in DOMAIN usage THEN rem(x) ELSE G[x]]

\* usage = {idx: vram for idx in gpus}
EntryUsage(entry) ==
    [x \in {entry.gpus[i] : i \in 1 .. Len(entry.gpus)} |-> entry.vram_required]

\* release_process_entry: pop the entry, release vram on each of its gpus
release_process_entry_keeps_vram(P, G, app) ==
    [procs |-> IF app \in DOMAIN P THEN Pop(P, app) ELSE P, usage |-> G]
release_process_entry(P, G, app) ==
    IF app \notin DOMAIN P
    THEN [procs |-> P, usage |-> G]
    ELSE [procs |-> Pop(P, app),
          usage |-> IF Len(P[app].gpus) > 0
                    THEN release_gpus(G, EntryUsage(P[app]))
                    ELSE G]

\* free = total - used_mem - GPU_USAGE.get(idx, 0)
FreeIgnoringReserved(G, info, idx) == info[idx].total - info[idx].used
Free(G, info, idx) == info[idx].total - info[idx].used - Get(G, idx)

\* candidates, sorted by index: the gpus with free > 0
IndexSeq == [i \in 1 .. NumGpus |-> i - 1]
CandidatesUnfiltered(G, info) == IndexSeq
CandidatesDescending(G, info) ==
    LET asc == SelectSeq(IndexSeq, LAMBDA g : Free(G, info, g) > 0)
    IN  [i \in 1 .. Len(asc) |-> asc[Len(asc) + 1 - i]]
Candidates(G, info) == SelectSeq(IndexSeq, LAMBDA g : Free(G, info, g) > 0)

\* the multi-GPU walk: take min(remaining, free) at each candidate in order
RECURSIVE MultiWalk(_, _, _, _, _, _)
MultiWalk(G, info, cands, i, remaining, acc) ==
    IF i > Len(cands) \/ remaining <= 0
    THEN [keys |-> acc.keys, alloc |-> acc.alloc, remaining |-> remaining]
    ELSE LET idx == cands[i]
             free == Free(G, info, idx)
             take == IF remaining < free THEN remaining ELSE free
         IN  MultiWalk(G, info, cands, i + 1, remaining - take,
                       [keys |-> Append(acc.keys, idx),
                        alloc |-> Put(acc.alloc, idx, take)])

\* reserve_gpus called as a function: "with GPU_LOCK" blocks while it is held
reserve_gpus_call(lock, G, usage) ==
    IF lock = "free"
    THEN [done |-> TRUE, usage |-> reserve_gpus(G, usage)]
    ELSE [done |-> FALSE, usage |-> G]

\* (variant: the walk's increments are written even when they do not suffice)
get_available_gpu_partial(G, info, required, tool) ==
    LET cands == Candidates(G, info)
        fits == SelectSeq(cands, LAMBDA g : Free(G, info, g) >= required)
        walk == MultiWalk(G, info, cands, 1, required,
                          [keys |-> <<>>, alloc |-> EmptyDict])
    IN  IF tool # "ok" \/ Len(cands) = 0
        THEN [ret |-> "none", gpus |-> <<>>, usage |-> G]
        ELSE IF required <= 0
            THEN [ret |-> "gpus", gpus |-> <<cands[1]>>, usage |-> G]
        ELSE IF Len(fits) > 0
            THEN [ret |-> "gpus", gpus |-> <<fits[1]>>,
                  usage |-> Put(G, fits[1], Get(G, fits[1]) + required)]
        ELSE [ret |-> IF walk.remaining <= 0 THEN "blocked" ELSE "none",
              gpus |-> <<>>, usage |-> reserve_gpus(G, walk.alloc)]

\* get_available_gpu(required) with tool in {"ok", "fail", "empty"}: the
\* nvidia-smi call succeeded, raised, or printed no usable line.
\* ret: "gpus" (a list), "none" (None) or "blocked" (the call never returns
\* and GPU_LOCK stays held).
get_available_gpu(G, info, required, tool) ==
    LET none == [ret |-> "none", gpus |-> <<>>, usage |-> G]
        cands == Candidates(G, info)
        fits == SelectSeq(cands, LAMBDA g : Free(G, info, g) >= required)
        walk == MultiWalk(G, info, cands, 1, required,
                          [keys |-> <<>>, alloc |-> EmptyDict])
        commit == reserve_gpus_call("held", G, walk.alloc)
    IN  IF tool # "ok" THEN none
        ELSE IF Len(cands) = 0 THEN none
        ELSE IF required <= 0
            THEN [ret |-> "gpus", gpus |-> <<cands[1]>>, usage |-> G]
        ELSE IF Len(fits) > 0
            THEN [ret |-> "gpus", gpus |-> <<fits[1]>>,
                  usage |-> Put(G, fits[1], Get(G, fits[1]) + required)]
        ELSE IF walk.remaining <= 0
            THEN IF commit.done
                 THEN [ret |-> "gpus", gpus |-> walk.keys, usage |-> commit.usage]
                 ELSE [ret |-> "blocked", gpus |-> <<>>, usage |-> G]
        ELSE none

\* ------------------------------------------------------- agent: handlers
Entry(pr, gpus, vram) == [proc |-> pr, gpus |-> gpus, vram_required |-> vram]
NoReq == [st |-> "none", port |-> NoPort, vram |-> 0, gpus |-> <<>>]
NoProc == [st |-> "none", port |-> NoPort]
Live == {"starting", "ready"}

\* the agent's event loop runs unless a handler is stuck on GPU_LOCK
AgentRuns == GPU_LOCK = "free"

\* a terminated or stopped workload (SIGTERM, docker stop)
Killed(pr) == IF pr.st \in Live THEN [pr EXCEPT !.st = "exit1"] ELSE pr

\* the except branches of upload_app / deploy_template / restart_app on a
\* controller state C: AVAILABLE_PORTS.add(port); save_status(error)
RunErrorPath(C, a) ==
    [rows |-> save_status(C.rows, a, "error", NoPort, NoBeat, NoGpus),
     pool |-> C.pool \cup {ctlRun[a].port}]

\* run_app / restart_app up to the allocation: add_route, get_available_gpu;
\* on None: status=error callback, remove_route, 500, which the waiting
\* controller handler takes through its except branch
AgentRunAlloc(a, tool) ==
    /\ AgentRuns
    /\ agtReq[a].st = "sent"
    /\ bar[a].st = "none"
    /\ LET r == get_available_gpu(GPU_USAGE, smi, agtReq[a].vram, tool)
           c == RunErrorPath(update_status(Ctl, a, "error", NoGpus, now), a)
       IN  \/ /\ r.ret = "none"
              /\ rows' = c.rows
              /\ AVAILABLE_PORTS' = c.pool
              /\ routes' = remove_route(add_route(routes, a, agtReq[a].port), a)
              /\ agtReq' = [agtReq EXCEPT ![a] = NoReq]
              /\ ctlRun' = [ctlRun EXCEPT ![a] = [st |-> "idle", port |-> NoPort]]
              /\ UNCHANGED <<GPU_USAGE, GPU_LOCK>>
           \/ /\ r.ret = "gpus"
              /\ routes' = add_route(routes, a, agtReq[a].port)
              /\ GPU_USAGE' = r.usage
              /\ agtReq' = [agtReq EXCEPT ![a].st = "alloc", ![a].gpus = r.gpus]
              /\ UNCHANGED <<rows, AVAILABLE_PORTS, GPU_LOCK, ctlRun>>
           \/ /\ r.ret = "blocked"
              /\ routes' = add_route(routes, a, agtReq[a].port)
              /\ GPU_LOCK' = "held"
              /\ agtReq' = [agtReq EXCEPT ![a].st = "hung"]
              /\ UNCHANGED <<rows, AVAILABLE_PORTS, GPU_USAGE, ctlRun>>
    /\ UNCHANGED <<smi, PROCESSES, lastCall, now, requests, ctlStop,
                   bar, proc, orphans, hb, rdy>>
    /\ UNCHANGED <<stopFinal, lastUpload, px, cln, det>>

\* run_app / restart_app after the allocation: status=building callback,
\* PROCESSES[app_id] = {proc: None, ...}, build_and_run enqueued, 200, on
\* which the waiting controller handler does save_status(building), with
\* port=port on a restart
AgentRunRegister(a) ==
    /\ AgentRuns
    /\ agtReq[a].st = "alloc"
    /\ LET c == update_status(Ctl, a, "building", agtReq[a].gpus, now)
       IN  /\ rows' = IF ctlRun[a].st = "idle" THEN c.rows
                      ELSE save_status(c.rows, a, "building",
                              IF ctlRun[a].st = "restart" THEN ctlRun[a].port
                              ELSE NoPort, NoBeat, NoGpus)
           /\ AVAILABLE_PORTS' = c.pool
    /\ ctlRun' = [ctlRun EXCEPT ![a] = [st |-> "idle", port |-> NoPort]]
    /\ PROCESSES' = Put(PROCESSES, a,
                        Entry("None", agtReq[a].gpus, agtReq[a].vram))
    /\ bar' = [bar EXCEPT ![a] = [agtReq[a] EXCEPT !.st = "start"]]
    /\ agtReq' = [agtReq EXCEPT ![a] = NoReq]
    /\ UNCHANGED <<smi, GPU_USAGE, GPU_LOCK, lastCall, routes, now, requests,
                   ctlStop, proc, orphans, hb, rdy>>
    /\ UNCHANGED <<stopFinal, lastUpload, px, cln, det>>

\* the failure exits of build_and_run: status=error callback, then
\* remove_route and release_process_entry
BarFail(a) ==
    LET c == update_status(Ctl, a, "error", NoGpus, now)
        r == release_process_entry(PROCESSES, GPU_USAGE, a)
    IN  /\ rows' = c.rows
        /\ AVAILABLE_PORTS' = c.pool
        /\ routes' = remove_route(routes, a)
        /\ PROCESSES' = r.procs
        /\ GPU_USAGE' = r.usage
        /\ bar' = [bar EXCEPT ![a] = NoReq]
        /\ UNCHANGED <<proc, orphans, hb, rdy>>

\* build_and_run: the port pre-check, then the build / load / venv subprocess
BarPrecheck(a) ==
    /\ AgentRuns
    /\ bar[a].st = "start"
    /\ IF is_port_free(bar[a].port)
       THEN /\ bar' = [bar EXCEPT ![a].st = "building"]
            /\ UNCHANGED <<rows, AVAILABLE_PORTS, routes, PROCESSES, GPU_USAGE,
                           proc, orphans, hb, rdy>>
       ELSE BarFail(a)
    /\ UNCHANGED <<smi, GPU_LOCK, lastCall, now, requests, ctlRun, agtReq, ctlStop>>
    /\ UNCHANGED <<stopFinal, lastUpload, px, cln, det>>

\* build_and_run: the build subprocess returned; on success the workload is
\* spawned, PROCESSES[app_id] is written and both supervisors are started
BarFinish(a, ok) ==
    /\ AgentRuns
    /\ bar[a].st = "building"
    /\ IF ok
       THEN /\ proc' = [proc EXCEPT ![a] = [st |-> "starting", port |-> bar[a].port]]
            /\ orphans' = IF proc[a].st = "ready"
                          THEN orphans \cup {proc[a].port} ELSE orphans
            /\ PROCESSES' = Put(PROCESSES, a,
                                Entry("proc", bar[a].gpus, bar[a].vram))
            /\ hb' = [hb EXCEPT ![a] = TRUE]
            /\ rdy' = [rdy EXCEPT ![a] = "polling"]
            /\ bar' = [bar EXCEPT ![a] = NoReq]
            /\ UNCHANGED <<rows, AVAILABLE_PORTS, routes, GPU_USAGE>>
       ELSE BarFail(a)
    /\ UNCHANGED <<smi, GPU_LOCK, lastCall, now, requests, ctlRun, agtReq, ctlStop>>
    /\ UNCHANGED <<stopFinal, lastUpload, px, cln, det>>

\* --------------------------------------- agent: build_and_run, every exit
\* the failure exits of build_and_run after the allocation
BuildExits ==
    {"build", "load", "compose_missing", "compose_up", "no_entry_file",
     "venv", "pip"}

\* a failure exit: "try: POST /update_status status=error; finally:
\* remove_route; release_process_entry". There is no except clause: when the
\* POST raises (posted = FALSE) the finally block runs and the exception ends
\* the task. On the compose-up exit release_process_entry stands after the
\* finally block, so it is skipped when the POST raises.
build_and_run_releases(P, G, a, exit, posted) ==
    IF exit = "compose_up" /\ ~posted THEN [procs |-> P, usage |-> G]
    ELSE release_process_entry(P, G, a)
BarFailAs(a, exit, posted) ==
    LET c == IF posted THEN update_status(Ctl, a, "error", NoGpus, now)
             ELSE [rows |-> rows, pool |-> AVAILABLE_PORTS, code |-> 0]
        r == build_and_run_releases(PROCESSES, GPU_USAGE, a, exit, posted)
    IN  /\ rows' = c.rows
        /\ AVAILABLE_PORTS' = c.pool
        /\ routes' = remove_route(routes, a)
        /\ PROCESSES' = r.procs
        /\ GPU_USAGE' = r.usage
        /\ bar' = [bar EXCEPT ![a] = NoReq]
        /\ UNCHANGED <<proc, orphans, hb, rdy>>

\* the port pre-check, the callback of its failure exit reaching the
\* controller or not
BarPrecheckAs(a, posted) ==
    /\ AgentRuns
    /\ bar[a].st = "start"
    /\ IF is_port_free(bar[a].port)
       THEN /\ bar' = [bar EXCEPT ![a].st = "building"]
            /\ UNCHANGED <<rows, AVAILABLE_PORTS, routes, PROCESSES, GPU_USAGE,
                           proc, orphans, hb, rdy>>
       ELSE BarFailAs(a, "port_busy", posted)
    /\ UNCHANGED <<smi, GPU_LOCK, lastCall, now, requests, ctlRun, agtReq, ctlStop>>
    /\ UNCHANGED <<stopFinal, lastUpload, px, cln, det>>

\* the build step fails by one of the exits
BarExit(a, exit, posted) ==
    /\ AgentRuns
    /\ bar[a].st = "building"
    /\ BarFailAs(a, exit, posted)
    /\ UNCHANGED <<smi, GPU_LOCK, lastCall, now, requests, ctlRun, agtReq, ctlStop>>
    /\ UNCHANGED <<stopFinal, lastUpload, px, cln, det>>

\* ---------------------------------------------------- workload processes
\* the spawned workload starts listening (or fails to bind and exits)
ProcReady(a) ==
    /\ proc[a].st = "starting"
    /\ proc' = [proc EXCEPT ![a].st =
                    IF is_port_free(proc[a].port) THEN "ready" ELSE "exit1"]
    /\ UNCHANGED <<gpuVars, routes, rows, AVAILABLE_PORTS, now, requests,
                   ctlRun, agtReq, ctlStop, bar, orphans, hb, rdy>>
    /\ UNCHANGED <<stopFinal, lastUpload, px, cln, det>>

\* the workload exits on its own with return code 0 or not
ProcExit(a, rc) ==
    /\ proc[a].st \in Live
    /\ proc' = [proc EXCEPT ![a].st = IF rc = 0 THEN "exit0" ELSE "exit1"]
    /\ UNCHANGED <<gpuVars, routes, rows, AVAILABLE_PORTS, now, requests,
                   ctlRun, agtReq, ctlStop, bar, orphans, hb, rdy>>
    /\ UNCHANGED <<stopFinal, lastUpload, px, cln, det>>

\* ----------------------------------------------------- agent: supervisors
\* _cleanup_deleted_app: release_process_entry, terminate, docker stop,
\* remove_route
CleanupDeleted(a) ==
    LET r == release_process_entry(PROCESSES, GPU_USAGE, a)
    IN  /\ PROCESSES' = r.procs
        /\ GPU_USAGE' = r.usage
        /\ proc' = IF a \in DOMAIN PROCESSES
                        /\ PROCESSES[a].proc \in {"proc", "container", "compose"}
                   THEN [proc EXCEPT ![a] = Killed(@)] ELSE proc
        /\ routes' = remove_route(routes, a)

\* wait_for_http_ready: one poll. The loop ends when the process has exited;
\* a GET that is answered is followed by the status=running callback (404
\* runs the cleanup) and the task returns
RdyStep(a) ==
    /\ AgentRuns
    /\ rdy[a] = "polling"
    /\ proc[a].st # "starting"
    /\ LET c == update_status(Ctl, a, "running",
                    IF a \in DOMAIN PROCESSES THEN PROCESSES[a].gpus ELSE NoGpus,
                    now)
       IN  IF proc[a].st = "ready"
           THEN /\ rows' = c.rows
                /\ AVAILABLE_PORTS' = c.pool
                /\ IF c.code = 404
                   THEN CleanupDeleted(a)
                   ELSE UNCHANGED <<PROCESSES, GPU_USAGE, proc, routes>>
           ELSE UNCHANGED <<rows, AVAILABLE_PORTS, PROCESSES, GPU_USAGE, proc,
                            routes>>
    /\ rdy' = [rdy EXCEPT ![a] = "off"]
    /\ UNCHANGED <<smi, GPU_LOCK, lastCall, now, requests, ctlRun, agtReq,
                   ctlStop, bar, orphans, hb>>
    /\ UNCHANGED <<stopFinal, lastUpload, px, cln, det>>

\* wait_for_compose_ready: one poll of "while True". A connect to the port
\* that succeeds is followed by the status=running callback (404 runs the
\* cleanup) and the task returns; otherwise it sleeps and polls again, with no
\* other exit
RdyComposeStep(a) ==
    /\ AgentRuns
    /\ rdy[a] = "compose"
    /\ LET c == update_status(Ctl, a, "running", NoGpus, now)
       IN  IF ~is_port_free(proc[a].port)
           THEN /\ rows' = c.rows
                /\ AVAILABLE_PORTS' = c.pool
                /\ IF c.code = 404
                   THEN CleanupDeleted(a)
                   ELSE UNCHANGED <<PROCESSES, GPU_USAGE, proc, routes>>
                /\ rdy' = [rdy EXCEPT ![a] = "off"]
           ELSE UNCHANGED <<rows, AVAILABLE_PORTS, PROCESSES, GPU_USAGE, proc,
                            routes, rdy>>
    /\ UNCHANGED <<smi, GPU_LOCK, lastCall, now, requests, ctlRun, agtReq,
                   ctlStop, bar, orphans, hb>>
    /\ UNCHANGED <<stopFinal, lastUpload, px, cln, det>>

\* heartbeat_loop: what one iteration finds. With a process handle the app
\* runs while returncode is None; with the placeholder entry (proc None) of a
\* /run or /restart in progress, it runs if the routed port accepts a connection
\* ("None"); with the entry that recovery writes for a container ("container":
\* proc None, type docker), it runs while docker inspect says so
\* ("compose": proc None, type docker_compose, as build_and_run registers a
\* compose app: it runs while one of its containers does, and when none does
\* the status is finished, the exit code is not read)
HbRunning(a) ==
    IF PROCESSES[a].proc \in {"proc", "container", "compose"}
    THEN proc[a].st \in Live
    ELSE a \in DOMAIN routes /\ ~is_port_free(routes[a])
HbStatus(a) ==
    IF PROCESSES[a].proc = "compose" THEN "finished"
    ELSE IF PROCESSES[a].proc \in {"proc", "container"} /\ proc[a].st = "exit0"
    THEN "finished"
    ELSE "error"

\* heartbeat_loop: one iteration
HbStep(a) ==
    /\ AgentRuns
    /\ hb[a]
    /\ IF a \notin DOMAIN PROCESSES
       THEN /\ hb' = [hb EXCEPT ![a] = FALSE]
            /\ UNCHANGED <<rows, AVAILABLE_PORTS, PROCESSES, GPU_USAGE, proc, routes>>
       ELSE IF HbRunning(a)
       THEN LET c == heartbeat(Ctl, a, now)
            IN  /\ rows' = c.rows
                /\ AVAILABLE_PORTS' = c.pool
                /\ IF c.code = 404
                   THEN CleanupDeleted(a) /\ hb' = [hb EXCEPT ![a] = FALSE]
                   ELSE UNCHANGED <<PROCESSES, GPU_USAGE, proc, routes, hb>>
       ELSE LET c == update_status(Ctl, a, HbStatus(a), NoGpus, now)
                r == release_process_entry(PROCESSES, GPU_USAGE, a)
            IN  /\ rows' = c.rows
                /\ AVAILABLE_PORTS' = c.pool
                /\ hb' = [hb EXCEPT ![a] = FALSE]
                /\ IF c.code = 404
                   THEN CleanupDeleted(a)
                   ELSE /\ routes' = remove_route(routes, a)
                        /\ PROCESSES' = r.procs
                        /\ GPU_USAGE' = r.usage
                        /\ UNCHANGED proc
    /\ UNCHANGED <<smi, GPU_LOCK, lastCall, now, requests, ctlRun, agtReq,
                   ctlStop, bar, orphans, rdy>>
    /\ UNCHANGED <<stopFinal, lastUpload, px, cln, det>>

\* ------------------------------------------------ agent: startup recovery
\* recover_running_apps: one iteration of the loop over the routes file, for
\* a route whose app is not in PROCESSES. docker says whether docker inspect
\* finds a container of that name. The entry is rebuilt when the container
\* runs or the routed port accepts a connection; /status carries gpus but no
\* vram_required, so 0 is reserved on each gpu; status=running is posted and
\* its answer is not looked at; the heartbeat loop is started. Otherwise the
\* route is removed.
container_running(a, docker) == docker /\ proc[a].st \in Live
port_running_ignored(a) == FALSE
port_running(a) == ~is_port_free(routes[a])
RecoverApp(a, docker) ==
    /\ AgentRuns
    /\ a \in DOMAIN routes
    /\ a \notin DOMAIN PROCESSES
    /\ LET gpus == IF a \in DOMAIN rows THEN rows[a].gpus ELSE NoGpus
           e == Entry(IF docker THEN "container" ELSE "None", gpus, 0)
           c == update_status(Ctl, a, "running", gpus, now)
       IN  IF container_running(a, docker) \/ port_running(a)
           THEN /\ PROCESSES' = Put(PROCESSES, a, e)
                /\ GPU_USAGE' = IF gpus # NoGpus
                                THEN reserve_gpus(GPU_USAGE, EntryUsage(e))
                                ELSE GPU_USAGE
                /\ rows' = c.rows
                /\ AVAILABLE_PORTS' = c.pool
                /\ hb' = [hb EXCEPT ![a] = TRUE]
                /\ UNCHANGED routes
           ELSE /\ routes' = remove_route(routes, a)
                /\ UNCHANGED <<PROCESSES, GPU_USAGE, rows, AVAILABLE_PORTS, hb>>
    /\ UNCHANGED <<smi, GPU_LOCK, lastCall, now, requests, ctlRun, agtReq,
                   ctlStop, bar, proc, orphans, rdy, stopFinal,
                   lastUpload, px, cln, det>>

\* ------------------------------------------------------------ agent: /stop
NoStop == [st |-> "idle", by |-> "none"]

\* _stop_agent_and_update_status after the agent answered (200 or 404):
\* save_status(stopped); release_app_port
StopDoneForgets(C, a) == [rows |-> C.rows, pool |-> C.pool]
StopDone(C, a) ==
    release_app_port([rows |-> save_status(C.rows, a, "stopped", NoPort, NoBeat,
                                            NoGpus),
                      pool |-> C.pool], a)

\* delete_app after its call to the agent: release_app_port, DELETE FROM apps
DeleteRow(C, a) ==
    LET r == release_app_port(C, a)
    IN  [rows |-> IF a \in DOMAIN r.rows THEN Pop(r.rows, a) ELSE r.rows,
         pool |-> r.pool]

\* what the caller of the agent's /stop does once the agent has answered: the
\* background stop task records stopped, delete_app deletes the row, the
\* watchdog does nothing more
AfterStop(C, a, by) ==
    IF by = "task" THEN StopDone(C, a)
    ELSE IF by = "delete" THEN DeleteRow(C, a)
    ELSE C

\* stop_app for an app_id that is not in PROCESSES: HTTPException(404)
stop_app_unknown_cleans(P, G, R, C, a) ==
    [procs |-> P, usage |-> G, routes |-> remove_route(R, a),
     ctl |-> [rows |-> update_status(C, a, "stopped", NoGpus, 0).rows,
              pool |-> update_status(C, a, "stopped", NoGpus, 0).pool],
     code |-> 404]
stop_app_unknown(P, G, R, C, a) ==
    [procs |-> P, usage |-> G, routes |-> R, ctl |-> C, code |-> 404]

\* stop_app up to its first await: 404 for an unknown app (the watchdog then
\* falls back to /remove_route); with a handle, terminate it and wait; with the
\* placeholder entry (proc None) nothing is awaited before the entry is
\* released and the route removed, so these belong to the same step
AgentStopBegin(a) ==
    /\ AgentRuns
    /\ ctlStop[a].st = "sent"
    /\ IF a \notin DOMAIN PROCESSES
       THEN LET r == stop_app_unknown(PROCESSES, GPU_USAGE, routes, Ctl, a)
                c == AfterStop(r.ctl, a, ctlStop[a].by)
            IN  /\ ctlStop' = [ctlStop EXCEPT ![a] =
                        IF ctlStop[a].by = "watchdog"
                        THEN [st |-> "fallback", by |-> "watchdog"] ELSE NoStop]
                /\ PROCESSES' = r.procs
                /\ GPU_USAGE' = r.usage
                /\ routes' = r.routes
                /\ rows' = c.rows
                /\ AVAILABLE_PORTS' = c.pool
                /\ UNCHANGED proc
       ELSE IF PROCESSES[a].proc = "proc"
       THEN /\ ctlStop' = [ctlStop EXCEPT ![a].st = "term"]
            /\ proc' = [proc EXCEPT ![a] = Killed(@)]
            /\ UNCHANGED <<PROCESSES, GPU_USAGE, routes, rows, AVAILABLE_PORTS>>
       ELSE LET r == release_process_entry(PROCESSES, GPU_USAGE, a)
            IN  /\ ctlStop' = [ctlStop EXCEPT ![a].st = "post"]
                /\ PROCESSES' = r.procs
                /\ GPU_USAGE' = r.usage
                /\ routes' = remove_route(routes, a)
                /\ UNCHANGED <<proc, rows, AVAILABLE_PORTS>>
    /\ UNCHANGED <<smi, GPU_LOCK, lastCall, now, requests,
                   ctlRun, agtReq, bar, orphans, hb, rdy>>
    /\ UNCHANGED <<stopFinal, lastUpload, px, cln, det>>

\* stop_app after the wait: release_process_entry, docker stop, remove_route
\* (unless done before, "post"), status=stopped callback, 200, on which the
\* caller continues
AgentStopFinish(a) ==
    /\ AgentRuns
    /\ ctlStop[a].st \in {"term", "post"}
    /\ LET r == release_process_entry(PROCESSES, GPU_USAGE, a)
           c == AfterStop(update_status(Ctl, a, "stopped", NoGpus, now), a,
                          ctlStop[a].by)
       IN  /\ rows' = c.rows
           /\ AVAILABLE_PORTS' = c.pool
           /\ IF ctlStop[a].st = "term"
              THEN /\ PROCESSES' = r.procs
                   /\ GPU_USAGE' = r.usage
                   /\ routes' = remove_route(routes, a)
              ELSE UNCHANGED <<PROCESSES, GPU_USAGE, routes>>
    /\ ctlStop' = [ctlStop EXCEPT ![a] = NoStop]
    /\ UNCHANGED <<smi, GPU_LOCK, lastCall, now, requests, ctlRun, agtReq,
                   bar, proc, orphans, hb, rdy>>
    /\ stopFinal' = IF agtReq[a].st = "none" /\ ctlRun[a].st = "idle"
                    THEN stopFinal \cup {a} ELSE stopFinal
    /\ UNCHANGED <<lastUpload, px, cln, det>>

\* ---------------------------------------------------- controller: ports
\* the checkout loop of upload_app / deploy_template / restart_app: pop ports
\* until one passes is_port_free; the busy ports popped on the way are dropped.
\* got = NoPort is the 503 exit. (CheckoutsAnyPort: a variant without the
\* bind-probe.)
CheckoutsAnyPort(pool) ==
    IF pool = {} THEN {[got |-> NoPort, pool |-> {}]}
    ELSE {[got |-> p, pool |-> pool \ {p}] : p \in pool}
Checkouts(pool) ==
    LET free == {p \in pool : is_port_free(p)}
        busy == pool \ free
    IN  IF free = {}
        THEN {[got |-> NoPort, pool |-> {}]}
        ELSE {[got |-> p, pool |-> pool \ (D \cup {p})] :
                    p \in free, D \in SUBSET busy}

\* restart_app lines 1067-1079: the stored port is taken again when it binds,
\* else a port is checked out
RestartPorts(stored, pool) ==
    IF stored # NoPort /\ is_port_free(stored)
    THEN {[got |-> stored, pool |-> pool \ {stored}]}
    ELSE IF pool = {} THEN {[got |-> NoPort, pool |-> pool]}
    ELSE Checkouts(pool)

\* -------------------------------------------------- controller: handlers
\* save_status for an app_id that has no row, the INSERT branch: the statement
\* names 13 columns and 12 placeholders, sqlite3 raises OperationalError
\* ("12 values for 13 columns") and nothing is written
save_status_new(R, status, port) == [rows |-> R, raised |-> TRUE]

\* upload_app / deploy_template on a controller state C, as the outcomes the
\* handler can have: 503 with an empty pool; 503 when no port of the pool
\* passes the bind-probe (the ports popped are gone from the pool); else a
\* port is checked out and save_status(app_id, "uploaded", port=port) is
\* called for the new uuid. As it raises, the request ends 500 before the
\* agent is called (called = FALSE) and the port is in nobody's hands.
upload_app(C) ==
    IF C.pool = {}
    THEN {[code |-> 503, rows |-> C.rows, pool |-> C.pool, port |-> NoPort,
           called |-> FALSE]}
    ELSE {LET s == save_status_new(C.rows, "uploaded", co.got)
          IN  IF co.got = NoPort
              THEN [code |-> 503, rows |-> C.rows, pool |-> co.pool,
                    port |-> NoPort, called |-> FALSE]
              ELSE [code |-> IF s.raised THEN 500 ELSE 200, rows |-> s.rows,
                    pool |-> co.pool, port |-> co.got, called |-> ~s.raised] :
                co \in Checkouts(C.pool)}

\* POST /upload (with a name no row has) or /deploy_template (which does not
\* look at the names)
Answered(o) ==
    /\ AVAILABLE_PORTS' = o.pool
    /\ rows' = o.rows
    /\ lastUpload' = o.code
    /\ requests' = requests + 1
    /\ UNCHANGED <<gpuVars, routes, now, ctlRun, agtReq, ctlStop, bar,
                   proc, orphans, hb, rdy, stopFinal, px, cln, det>>
Upload ==
    /\ requests < MaxRequests
    /\ \E o \in upload_app(Ctl) : Answered(o)

\* ------------------------------------------- controller: kind detection
\* upload_app's "Detect app type". A bundle is the uploaded file's name (tar:
\* it ends with .tar, case ignored) and the files of the extracted directory
\* in the order os.walk lists them. The scan stops at the first file whose
\* lower-cased name is a compose file or a Dockerfile.
MaxFiles == 3
FileNames == {"docker-compose.yml", "Docker-Compose.YAML", "Dockerfile", "app.py"}
lower(fname) ==
    CASE fname = "Docker-Compose.YAML" -> "docker-compose.yaml"
      [] fname = "Dockerfile" -> "dockerfile"
      [] OTHER -> fname
ComposeNames == {"docker-compose.yml", "docker-compose.yaml"}
RECURSIVE walk(_)
walk(files) ==
    IF files = <<>> THEN "gradio"
    ELSE IF lower(Head(files)) \in ComposeNames THEN "docker_compose"
    ELSE IF lower(Head(files)) = "dockerfile" THEN "docker"
    ELSE walk(Tail(files))
detect_app_type(tar, files) == IF tar THEN "docker_tar" ELSE walk(files)

NoBundle == [tar |-> FALSE, files |-> <<>>, app_type |-> "none"]
Bundles ==
    UNION {[tar : BOOLEAN, files : [1 .. n -> FileNames], app_type : {"none"}] :
                n \in 0 .. MaxFiles}
DetectType(b) ==
    /\ det' = [b EXCEPT !.app_type = detect_app_type(b.tar, b.files)]
    /\ UNCHANGED <<gpuVars, appVars, px, cln>>

\* ---------------------------------------------------- controller: names
\* a name as the client sends it: the text and whether blanks surround it;
\* name.strip() is what the handlers compare and store
AppNames == {"n1", "n2", "n3"}
NameInputs == [text : AppNames, padded : BOOLEAN]
strip(n) == n.text
NameTaken(R, nm, except) ==
    \E b \in DOMAIN R : b \notin except /\ R[b].name = nm

\* POST /upload with the name n: 400 when a row has the stripped name, before
\* anything else is done
UploadNamed(n) ==
    /\ requests < MaxRequests
    /\ IF NameTaken(rows, strip(n), {})
       THEN Answered([code |-> 400, rows |-> rows, pool |-> AVAILABLE_PORTS])
       ELSE \E o \in upload_app(Ctl) : Answered(o)

\* POST /edit_app: 404 for an unknown app, 400 when another row has the
\* stripped name, else save_status(app_id, name=name.strip(), ...)
edit_app_unchecked(R, a, n) ==
    IF a \notin DOMAIN R THEN [rows |-> R, code |-> 404]
    ELSE [rows |-> Put(R, a, [R[a] EXCEPT !.name = strip(n)]), code |-> 200]
edit_app(R, a, n) ==
    IF a \notin DOMAIN R THEN [rows |-> R, code |-> 404]
    ELSE IF NameTaken(R, strip(n), {a}) THEN [rows |-> R, code |-> 400]
    ELSE [rows |-> Put(R, a, [R[a] EXCEPT !.name = strip(n)]), code |-> 200]
EditApp(a, n) ==
    /\ rows' = edit_app(rows, a, n).rows
    /\ UNCHANGED <<gpuVars, routes, AVAILABLE_PORTS, now, requests, ctlRun,
                   agtReq, ctlStop, bar, proc, orphans, hb, rdy, stopFinal,
                   lastUpload, px, cln, det>>

\* POST /restart/{id} up to the agent call
Restart(a) ==
    /\ requests < MaxRequests
    /\ a \in DOMAIN rows
    /\ ctlRun[a].st = "idle"
    /\ agtReq[a].st = "none"
    /\ \E co \in RestartPorts(rows[a].port, AVAILABLE_PORTS) :
          /\ AVAILABLE_PORTS' = co.pool
          /\ IF co.got = NoPort
             THEN UNCHANGED <<ctlRun, agtReq>>
             ELSE /\ ctlRun' = [ctlRun EXCEPT ![a] = [st |-> "restart", port |-> co.got]]
                  /\ agtReq' = [agtReq EXCEPT ![a] =
                        [st |-> "sent", port |-> co.got,
                         vram |-> rows[a].vram_required, gpus |-> <<>>]]
    /\ requests' = requests + 1
    /\ UNCHANGED <<gpuVars, routes, rows, now, ctlStop, bar, proc, orphans, hb, rdy>>
    /\ stopFinal' = stopFinal \ {a}
    /\ UNCHANGED <<lastUpload, px, cln, det>>

\* the agent could not be reached (httpx.ConnectError): the request is lost
CtlRunConnectError(a) ==
    /\ ctlRun[a].st # "idle"
    /\ agtReq[a].st = "sent"
    /\ LET c == RunErrorPath(Ctl, a)
       IN  rows' = c.rows /\ AVAILABLE_PORTS' = c.pool
    /\ ctlRun' = [ctlRun EXCEPT ![a] = [st |-> "idle", port |-> NoPort]]
    /\ agtReq' = [agtReq EXCEPT ![a] = NoReq]
    /\ UNCHANGED <<gpuVars, routes, now, requests, ctlStop, bar, proc, orphans,
                   hb, rdy>>
    /\ UNCHANGED <<stopFinal, lastUpload, px, cln, det>>

\* no answer within 5 s (httpx.TimeoutException) while the agent is stuck
CtlRunTimeout(a) ==
    /\ ctlRun[a].st # "idle"
    /\ agtReq[a].st = "hung"
    /\ LET c == RunErrorPath(Ctl, a)
       IN  rows' = c.rows /\ AVAILABLE_PORTS' = c.pool
    /\ ctlRun' = [ctlRun EXCEPT ![a] = [st |-> "idle", port |-> NoPort]]
    /\ UNCHANGED <<gpuVars, routes, now, requests, agtReq, ctlStop, bar, proc,
                   orphans, hb, rdy>>
    /\ UNCHANGED <<stopFinal, lastUpload, px, cln, det>>

\* POST /stop and POST /apps/{id}/stop: status=stopping, the agent call runs
\* in the background
Stop(a) ==
    /\ requests < MaxRequests
    /\ a \in DOMAIN rows
    /\ ctlRun[a].st = "idle"
    /\ ctlStop[a].st = "idle"
    /\ rows' = save_status(rows, a, "stopping", NoPort, NoBeat, NoGpus)
    /\ ctlStop' = [ctlStop EXCEPT ![a] = [st |-> "sent", by |-> "task"]]
    /\ requests' = requests + 1
    /\ UNCHANGED <<gpuVars, routes, AVAILABLE_PORTS, now, ctlRun, agtReq, bar,
                   proc, orphans, hb, rdy>>
    /\ UNCHANGED <<stopFinal, lastUpload, px, cln, det>>

\* DELETE /apps/{id}: a running app is stopped through the agent's /stop first;
\* for any other status the agent's /remove_route is called (failures are
\* ignored), then release_app_port and DELETE FROM apps
Delete(a) ==
    /\ requests < MaxRequests
    /\ a \in DOMAIN rows
    /\ ctlRun[a].st = "idle"
    /\ ctlStop[a].st = "idle"
    /\ IF rows[a].status = "running"
       THEN /\ ctlStop' = [ctlStop EXCEPT ![a] = [st |-> "sent", by |-> "delete"]]
            /\ UNCHANGED <<routes, rows, AVAILABLE_PORTS>>
       ELSE /\ routes' = IF AgentRuns THEN remove_route(routes, a) ELSE routes
            /\ rows' = DeleteRow(Ctl, a).rows
            /\ AVAILABLE_PORTS' = DeleteRow(Ctl, a).pool
            /\ UNCHANGED ctlStop
    /\ requests' = requests + 1
    /\ UNCHANGED <<gpuVars, now, ctlRun, agtReq, bar, proc, orphans, hb, rdy>>
    /\ UNCHANGED <<stopFinal, lastUpload, px, cln, det>>

\* DELETE /apps/{id} while another handler for the app awaits the agent (the
\* stop task of a stopping app, a restart in flight): delete_app does not wait
\* for it. For a status other than running: /remove_route, release_app_port,
\* DELETE FROM apps
DeleteBusy(a) ==
    /\ requests < MaxRequests
    /\ a \in DOMAIN rows
    /\ ctlRun[a].st # "idle" \/ ctlStop[a].st # "idle"
    /\ rows[a].status # "running"
    /\ routes' = IF AgentRuns THEN remove_route(routes, a) ELSE routes
    /\ rows' = DeleteRow(Ctl, a).rows
    /\ AVAILABLE_PORTS' = DeleteRow(Ctl, a).pool
    /\ requests' = requests + 1
    /\ UNCHANGED <<gpuVars, now, ctlRun, agtReq, ctlStop, bar, proc, orphans,
                   hb, rdy>>
    /\ UNCHANGED <<stopFinal, lastUpload, px, cln, det>>

\* the call to the agent's /stop raised in its caller: the stop task records
\* error and releases the port, delete_app goes on to delete the row, the
\* watchdog falls back to /remove_route
StopFailed(a) ==
    LET by == ctlStop[a].by
        c == IF by = "task"
             THEN release_app_port(
                    [rows |-> save_status(rows, a, "error", NoPort, NoBeat, NoGpus),
                     pool |-> AVAILABLE_PORTS], a)
             ELSE IF by = "delete" THEN DeleteRow(Ctl, a)
             ELSE Ctl
    IN  /\ rows' = c.rows
        /\ AVAILABLE_PORTS' = c.pool
        /\ ctlStop' = [ctlStop EXCEPT ![a] =
                IF by = "watchdog" THEN [st |-> "fallback", by |-> "watchdog"]
                ELSE NoStop]
        /\ UNCHANGED <<gpuVars, routes, now, requests, ctlRun, agtReq, bar, proc,
                       orphans, hb, rdy>>
        /\ UNCHANGED <<stopFinal, lastUpload, px, cln, det>>

\* the agent could not be reached by the /stop call (the request is lost)
CtlStopError(a) ==
    /\ ctlStop[a].st = "sent"
    /\ AgentRuns
    /\ StopFailed(a)

\* no answer to the /stop call within its timeout while the agent is stuck
CtlStopTimeout(a) ==
    /\ ctlStop[a].st \in {"sent", "term", "post"}
    /\ ~AgentRuns
    /\ StopFailed(a)

\* --------------------------------------------------- controller: watchdog
\* cleanup_task: time passes by one sleep of the loop
Tick ==
    /\ now < MaxTicks * WATCHDOG_SLEEP
    /\ now' = now + WATCHDOG_SLEEP
    /\ UNCHANGED <<gpuVars, routes, rows, AVAILABLE_PORTS, requests, ctlRun,
                   agtReq, ctlStop, bar, proc, orphans, hb, rdy>>
    /\ UNCHANGED <<stopFinal, lastUpload, px, cln, det>>

\* the SELECT of cleanup_task: running, and last_heartbeat NULL or < cutoff
Stale(R, a, t) ==
    /\ a \in DOMAIN R
    /\ R[a].status = "running"
    /\ (R[a].last_heartbeat = NoBeat
            \/ R[a].last_heartbeat < t - HEARTBEAT_MAX_AGE)

\* cleanup_task on one stale app: UPDATE status='error', gpus=NULL;
\* release_app_port
watchdog_mark_keeps_port(C, a) ==
    [rows |-> Put(C.rows, a, [C.rows[a] EXCEPT !.status = "error",
                                               !.gpus = NoGpus]),
     pool |-> C.pool]
watchdog_mark(C, a) ==
    release_app_port(
        [rows |-> Put(C.rows, a, [C.rows[a] EXCEPT !.status = "error",
                                                   !.gpus = NoGpus]),
         pool |-> C.pool], a)

\* cleanup_task: a stale app is marked and the agent's /stop is called
Watchdog(a) ==
    /\ Stale(rows, a, now)
    /\ ctlStop[a].st = "idle"
    /\ rows' = watchdog_mark(Ctl, a).rows
    /\ AVAILABLE_PORTS' = watchdog_mark(Ctl, a).pool
    /\ ctlStop' = [ctlStop EXCEPT ![a] = [st |-> "sent", by |-> "watchdog"]]
    /\ UNCHANGED <<gpuVars, routes, now, requests, ctlRun, agtReq, bar, proc,
                   orphans, hb, rdy>>
    /\ UNCHANGED <<stopFinal, lastUpload, px, cln, det>>

\* cleanup_task: the fallback /remove_route after a failed /stop (its own
\* failure is ignored)
WatchdogFallback(a) ==
    /\ ctlStop[a].st = "fallback"
    /\ routes' = IF AgentRuns THEN remove_route(routes, a) ELSE routes
    /\ ctlStop' = [ctlStop EXCEPT ![a] = NoStop]
    /\ UNCHANGED <<gpuVars, rows, AVAILABLE_PORTS, now, requests, ctlRun,
                   agtReq, bar, proc, orphans, hb, rdy>>
    /\ UNCHANGED <<stopFinal, lastUpload, px, cln, det>>

\* ------------------------------------------- agent: cleanup, step by step
\* a cleanup not started: no path, no local entry, no step taken
NoEntry == Entry("absent", NoGpus, 0)
NoCleanup == [a \in Apps |-> [pc |-> "idle", path |-> "none",
                              entry |-> NoEntry, steps |-> <<>>]]

\* ------------------------------------------------------ the whole system
DeviceReadings == [g \in Gpus |-> [total |-> GpuTotal, used |-> 1]]

\* app.db persists across controller starts ("if database existed before",
\* main.py:196): the rows of apps deployed earlier and since stopped
StoredVrams == {2, 3}
StoredRows == [Apps -> {Row("stopped", NoPort, NoBeat, NoGpus, v) : v \in StoredVrams}]

InitAgent ==
    /\ GPU_USAGE = EmptyDict
    /\ GPU_LOCK = "free"
    /\ PROCESSES = EmptyDict
    /\ lastCall = [seq |-> 0, required |-> 0, tool |-> "ok", ret |-> "none",
                   gpus |-> <<>>]
    /\ routes = EmptyDict
    /\ AVAILABLE_PORTS = Ports
    /\ now = 0
    /\ requests = 0
    /\ ctlRun = [a \in Apps |-> [st |-> "idle", port |-> NoPort]]
    /\ agtReq = [a \in Apps |-> NoReq]
    /\ ctlStop = [a \in Apps |-> NoStop]
    /\ bar = [a \in Apps |-> NoReq]
    /\ proc = [a \in Apps |-> NoProc]
    /\ orphans = {}
    /\ hb = [a \in Apps |-> FALSE]
    /\ rdy = [a \in Apps |-> "off"]
    /\ stopFinal = {}
    /\ lastUpload = NoUpload
    /\ px = NoProxy
    /\ cln = NoCleanup
    /\ det = NoBundle

InitRest == InitAgent /\ rows = EmptyDict

Init == smi = DeviceReadings /\ InitAgent /\ rows \in StoredRows

\* every step for the apps of S but the failed calls to the agent and the
\* watchdog
StepsOf(S) ==
    \/ Upload
    \/ \E a \in S : Restart(a)
    \/ \E a \in S : Stop(a)
    \/ \E a \in S : Delete(a)
    \/ \E a \in S : CtlRunTimeout(a)
    \/ \E a \in S : CtlStopTimeout(a)
    \/ \E a \in S, tool \in {"ok", "fail"} : AgentRunAlloc(a, tool)
    \/ \E a \in S : AgentRunRegister(a)
    \/ \E a \in S : BarPrecheck(a)
    \/ \E a \in S, ok \in BOOLEAN : BarFinish(a, ok)
    \/ \E a \in S : ProcReady(a)
    \/ \E a \in S, rc \in {0, 1} : ProcExit(a, rc)
    \/ \E a \in S : RdyStep(a)
    \/ \E a \in S : HbStep(a)
    \/ \E a \in S : AgentStopBegin(a)
    \/ \E a \in S : AgentStopFinish(a)

\* the calls to the agent that raise in the controller
FaultsOf(S) ==
    \/ \E a \in S : CtlRunConnectError(a)
    \/ \E a \in S : CtlStopError(a)

NextNoFault == StepsOf(Apps)

Faults == FaultsOf(Apps)

Next == NextNoFault \/ Faults

Spec == Init /\ [][Next]_vars

\* the system while every call reaches the agent
SpecNoFault == Init /\ [][NextNoFault]_vars

\* the controller's watchdog and time
Timed ==
    \/ Tick
    \/ \E a \in Apps : Watchdog(a)
    \/ \E a \in Apps : WatchdogFallback(a)

\* the system with the watchdog, the requests being those for one app
WatchedApps == {"a1"}

NextTimed == StepsOf(WatchedApps) \/ FaultsOf(WatchedApps) \/ Timed

SpecTimed == Init /\ [][NextTimed]_vars

\* the event loops go on: a request sent to an agent that runs is handled,
\* the agent's stop_app returns after its bounded wait, and a call that gets
\* no answer ends with its timeout
StopFairness ==
    \A a \in WatchedApps :
        /\ WF_vars(AgentStopBegin(a))
        /\ WF_vars(AgentStopFinish(a))
        /\ WF_vars(CtlStopTimeout(a))

NextWatched == StepsOf(WatchedApps) \/ FaultsOf(WatchedApps)

SpecLive == Init /\ [][NextWatched]_vars /\ StopFairness

\* controller and agent keep running and subprocesses terminate: every
\* handler, background task and supervisor of the agent gets its turn, a
\* build ends, a started workload binds its port or exits, and a call that
\* gets no answer ends with its timeout
AgentFairness ==
    \A a \in WatchedApps :
        /\ WF_vars(\E tool \in {"ok", "fail"} : AgentRunAlloc(a, tool))
        /\ WF_vars(AgentRunRegister(a))
        /\ WF_vars(BarPrecheck(a))
        /\ WF_vars(\E ok \in BOOLEAN : BarFinish(a, ok))
        /\ WF_vars(ProcReady(a))
        /\ WF_vars(RdyStep(a))
        /\ WF_vars(HbStep(a))
        /\ WF_vars(AgentStopBegin(a))
        /\ WF_vars(AgentStopFinish(a))
        /\ WF_vars(CtlStopTimeout(a))
        /\ WF_vars(CtlRunTimeout(a))
NextServed == StepsOf(WatchedApps) \/ \E a \in WatchedApps : DeleteBusy(a)
SpecServed == Init /\ [][NextServed]_vars /\ AgentFairness

\* the agent starts again while workloads of earlier deployments may still
\* run: routes.json holds their routes, the controller holds their rows (or
\* has deleted them), each routed workload is starting, listening or gone
RecoveredRoutes ==
    UNION {{r \in [S -> Ports] : \A x, y \in S : r[x] = r[y] => x = y} :
                S \in SUBSET Apps}
RecoveredRows ==
    UNION {[S -> {Row(st, NoPort, NoBeat, g, v) :
                    st \in {"running", "error"}, g \in {NoGpus, <<0>>},
                    v \in StoredVrams}] : S \in SUBSET Apps}
InitRecover ==
    /\ smi = DeviceReadings
    /\ GPU_USAGE = EmptyDict
    /\ GPU_LOCK = "free"
    /\ PROCESSES = EmptyDict
    /\ lastCall = [seq |-> 0, required |-> 0, tool |-> "ok", ret |-> "none",
                   gpus |-> <<>>]
    /\ routes \in RecoveredRoutes
    /\ rows \in RecoveredRows
    /\ AVAILABLE_PORTS = Ports
    /\ now = 0
    /\ requests = 0
    /\ ctlRun = [a \in Apps |-> [st |-> "idle", port |-> NoPort]]
    /\ agtReq = [a \in Apps |-> NoReq]
    /\ ctlStop = [a \in Apps |-> NoStop]
    /\ bar = [a \in Apps |-> NoReq]
    /\ proc \in [Apps -> [st : {"none", "starting", "ready", "exit1"},
                          port : Ports \cup {NoPort}]]
    /\ \A a \in Apps :
            IF a \in DOMAIN routes
            THEN proc[a].st # "none" /\ proc[a].port = routes[a]
            ELSE proc[a] = NoProc
    /\ orphans = {}
    /\ hb = [a \in Apps |-> FALSE]
    /\ rdy = [a \in Apps |-> "off"]
    /\ stopFinal = {}
    /\ lastUpload = NoUpload
    /\ px = NoProxy
    /\ cln = NoCleanup
    /\ det = NoBundle
NextRecover ==
    \/ \E a \in Apps, docker \in BOOLEAN : RecoverApp(a, docker)
    \/ \E a \in Apps : HbStep(a)
    \/ \E a \in Apps : ProcReady(a)
SpecRecover == InitRecover /\ [][NextRecover]_vars

\* the apps table with its name column: the stored rows have different names
StoredNames == [a1 |-> "n1", a2 |-> "n2"]
NamedRows ==
    {[a \in Apps |-> [status |-> "stopped", port |-> NoPort,
                      last_heartbeat |-> NoBeat, gpus |-> NoGpus,
                      vram_required |-> v, name |-> StoredNames[a]]] :
        v \in StoredVrams}
InitNames == smi = DeviceReadings /\ InitAgent /\ rows \in NamedRows
NextNames ==
    \/ \E n \in NameInputs : UploadNamed(n)
    \/ Upload
    \/ \E a \in Apps, n \in NameInputs : EditApp(a, n)
    \/ \E a \in Apps : Delete(a)
SpecNames == InitNames /\ [][NextNames]_vars

\* the run path with every exit of build_and_run, the error callback reaching
\* the controller or raising
NextBuild ==
    \/ \E a \in Apps : Restart(a)
    \/ \E a \in Apps, tool \in {"ok", "fail"} : AgentRunAlloc(a, tool)
    \/ \E a \in Apps : AgentRunRegister(a)
    \/ \E a \in Apps, posted \in BOOLEAN : BarPrecheckAs(a, posted)
    \/ \E a \in Apps : BarFinish(a, TRUE)
    \/ \E a \in Apps, exit \in BuildExits, posted \in BOOLEAN :
            BarExit(a, exit, posted)
    \/ \E a \in Apps : ProcReady(a)
    \/ \E a \in Apps, rc \in {0, 1} : ProcExit(a, rc)
    \/ \E a \in Apps : RdyStep(a)
    \/ \E a \in Apps : HbStep(a)
SpecBuild == Init /\ [][NextBuild]_vars

\* ------------------------------------------------------- proxy: callers
\* the threads that call add_route / remove_route and the steps of a call:
\* enter the with block, load_routes, change the map and save_routes (or
\* find nothing to remove), generate_config, reload_proxy, leave the block
PxCall(t, c) ==
    /\ px.th[t].pc \in {"idle", "done"}
    /\ Len(px.order) + Cardinality({u \in Threads : px.th[u].pc = "waiting"})
            < MaxRouteCalls
    /\ px' = [px EXCEPT !.th[t] = [Idle EXCEPT !.pc = "waiting", !.call = c]]
    /\ UNCHANGED <<gpuVars, appVars, cln, det>>
PxAcquire(t) ==
    /\ px.th[t].pc = "waiting"
    /\ acquire(px.lock)
    /\ px' = [px EXCEPT !.lock = t, !.order = Append(@, px.th[t].call),
                        !.th[t].pc = "locked"]
    /\ UNCHANGED <<gpuVars, appVars, cln, det>>
PxLoad(t) ==
    /\ px.th[t].pc = "locked"
    /\ px' = [px EXCEPT !.th[t].pc = "loaded", !.th[t].map = px.doc]
    /\ UNCHANGED <<gpuVars, appVars, cln, det>>
PxSave(t) ==
    /\ px.th[t].pc = "loaded"
    /\ LET c == px.th[t].call
           r == IF c.op = "add"
                THEN [map |-> add_route_map(px.th[t].map, c.id, c.port,
                                            c.allow_ips, c.auth_header),
                      written |-> TRUE]
                ELSE remove_route_map(px.th[t].map, c.id)
       IN  px' = IF r.written
                 THEN [px EXCEPT !.doc = r.map, !.th[t].map = r.map,
                                 !.th[t].wrote = TRUE, !.th[t].pc = "saved"]
                 ELSE [px EXCEPT !.th[t].pc = "leaving"]
    /\ UNCHANGED <<gpuVars, appVars, cln, det>>
PxGenerate(t) ==
    /\ px.th[t].pc = "saved"
    /\ px' = [px EXCEPT !.conf = generate_config(px.th[t].map),
                        !.th[t].generated = TRUE, !.th[t].pc = "generated"]
    /\ UNCHANGED <<gpuVars, appVars, cln, det>>
PxReload(t) ==
    /\ px.th[t].pc = "generated"
    /\ px' = [px EXCEPT !.th[t].reloaded = TRUE, !.th[t].pc = "leaving"]
    /\ UNCHANGED <<gpuVars, appVars, cln, det>>
PxRelease(t) ==
    /\ px.th[t].pc = "leaving"
    /\ px' = [px EXCEPT !.lock = "free", !.th[t].pc = "done"]
    /\ UNCHANGED <<gpuVars, appVars, cln, det>>

InitProxy == smi = DeviceReadings /\ InitRest
NextProxy ==
    \/ \E t \in Threads, c \in RouteCalls : PxCall(t, c)
    \/ \E t \in Threads : PxAcquire(t)
    \/ \E t \in Threads : PxLoad(t)
    \/ \E t \in Threads : PxSave(t)
    \/ \E t \in Threads : PxGenerate(t)
    \/ \E t \in Threads : PxReload(t)
    \/ \E t \in Threads : PxRelease(t)
SpecProxy == InitProxy /\ [][NextProxy]_vars

\* ----------------------------------------------- agent: cleanup, the steps
\* stop_app and _cleanup_deleted_app statement by statement. A coroutine keeps
\* the event loop until it awaits, so a cleanup takes a step only while every
\* other one is suspended: not started, awaiting proc.wait() or the POST, or
\* returned.
Suspended == {"idle", "wait", "post", "done"}
MayStep(a) == AgentRuns /\ \A b \in Apps \ {a} : cln[b].pc \in Suspended
ClnFrame ==
    UNCHANGED <<smi, GPU_LOCK, lastCall, now, requests, ctlRun, agtReq,
                ctlStop, bar, orphans, hb, rdy, stopFinal, lastUpload, px,
                det>>
Moved(a, pc, taken) ==
    [cln EXCEPT ![a].pc = pc, ![a].steps = @ \o taken]

\* stop_app: entry = PROCESSES.get(app_id); 404 if there is none
StopEnter(a) ==
    /\ MayStep(a)
    /\ cln[a].pc = "idle"
    /\ cln' = [cln EXCEPT ![a] =
            IF a \in DOMAIN PROCESSES
            THEN [pc |-> "terminate", path |-> "stop", entry |-> PROCESSES[a],
                  steps |-> <<>>]
            ELSE [pc |-> "done", path |-> "stop", entry |-> NoEntry,
                  steps |-> <<>>]]
    /\ UNCHANGED <<PROCESSES, GPU_USAGE, routes, rows, AVAILABLE_PORTS, proc>>
    /\ ClnFrame

\* _cleanup_deleted_app, entered when the controller answered 404 for the
\* app: entry = release_process_entry(app_id) is its first statement
DeletedEnter(a) ==
    /\ MayStep(a)
    /\ cln[a].pc = "idle"
    /\ a \notin DOMAIN rows
    /\ LET r == release_process_entry(PROCESSES, GPU_USAGE, a)
       IN  /\ PROCESSES' = r.procs
           /\ GPU_USAGE' = r.usage
           /\ cln' = [cln EXCEPT ![a] =
                IF a \in DOMAIN PROCESSES
                THEN [pc |-> "terminate", path |-> "deleted",
                      entry |-> PROCESSES[a],
                      steps |-> <<"drop_entry", "release_vram">>]
                ELSE [pc |-> "route", path |-> "deleted", entry |-> NoEntry,
                      steps |-> <<>>]]
    /\ UNCHANGED <<routes, rows, AVAILABLE_PORTS, proc>>
    /\ ClnFrame

\* if proc is not None: proc.terminate()
ClnTerminate(a) ==
    /\ MayStep(a)
    /\ cln[a].pc = "terminate"
    /\ IF cln[a].entry.proc = "proc"
       THEN /\ proc' = [proc EXCEPT ![a] = Killed(@)]
            /\ cln' = Moved(a, "wait", <<"terminate">>)
       ELSE /\ cln' = Moved(a, IF cln[a].path = "stop" THEN "release"
                               ELSE "docker", <<>>)
            /\ UNCHANGED proc
    /\ UNCHANGED <<PROCESSES, GPU_USAGE, routes, rows, AVAILABLE_PORTS>>
    /\ ClnFrame

\* await asyncio.wait_for(proc.wait(), 30) returns
ClnWait(a) ==
    /\ MayStep(a)
    /\ cln[a].pc = "wait"
    /\ cln' = Moved(a, IF cln[a].path = "stop" THEN "release" ELSE "docker",
                    <<>>)
    /\ UNCHANGED <<PROCESSES, GPU_USAGE, routes, rows, AVAILABLE_PORTS, proc>>
    /\ ClnFrame

\* stop_app: release_process_entry(req.app_id)
ClnRelease(a) ==
    /\ MayStep(a)
    /\ cln[a].pc = "release"
    /\ LET r == release_process_entry(PROCESSES, GPU_USAGE, a)
       IN  /\ PROCESSES' = r.procs
           /\ GPU_USAGE' = r.usage
           /\ cln' = Moved(a, "docker",
                           IF a \in DOMAIN PROCESSES
                           THEN <<"drop_entry", "release_vram">> ELSE <<>>)
    /\ UNCHANGED <<routes, rows, AVAILABLE_PORTS, proc>>
    /\ ClnFrame

\* docker stop / docker compose down for the docker types (a recovered
\* container is one; a handle or placeholder entry may be)
ClnDockerStop(a) ==
    /\ MayStep(a)
    /\ cln[a].pc = "docker"
    /\ \E docker \in IF cln[a].entry.proc \in {"container", "compose"}
                     THEN {TRUE} ELSE BOOLEAN :
        IF docker
        THEN /\ proc' = [proc EXCEPT ![a] = Killed(@)]
             /\ cln' = Moved(a, "route", <<"container_stop">>)
        ELSE /\ cln' = Moved(a, "route", <<>>)
             /\ UNCHANGED proc
    /\ UNCHANGED <<PROCESSES, GPU_USAGE, routes, rows, AVAILABLE_PORTS>>
    /\ ClnFrame

\* remove_route(app_id); _cleanup_deleted_app returns after it
ClnRemoveRoute(a) ==
    /\ MayStep(a)
    /\ cln[a].pc = "route"
    /\ routes' = remove_route(routes, a)
    /\ cln' = Moved(a, IF cln[a].path = "stop" THEN "post" ELSE "done",
                    <<"remove_route">>)
    /\ UNCHANGED <<PROCESSES, GPU_USAGE, rows, AVAILABLE_PORTS, proc>>
    /\ ClnFrame

\* stop_app: POST /update_status status=stopped, then 200
ClnNotify(a) ==
    /\ MayStep(a)
    /\ cln[a].pc = "post"
    /\ LET c == update_status(Ctl, a, "stopped", NoGpus, now)
       IN  /\ rows' = c.rows
           /\ AVAILABLE_PORTS' = c.pool
    /\ cln' = Moved(a, "done", <<"notify">>)
    /\ UNCHANGED <<PROCESSES, GPU_USAGE, routes, proc>>
    /\ ClnFrame

\* the states the cleanups start from: each app is unregistered or registered
\* after a /run (handle, or placeholder while the image builds) or a recovery
\* (container), with its reservation, its route and its workload; its row is
\* there or has been deleted
PortOf(a) == IF a = "a1" THEN PORT_START ELSE PORT_START + 1
Registered ==
    {Entry("proc", <<0>>, 1), Entry("proc", NoGpus, 0),
     Entry("None", <<0>>, 1), Entry("container", NoGpus, 0)}
RECURSIVE Reserved(_, _)
Reserved(P, S) ==
    IF S = {} THEN EmptyDict
    ELSE LET a == CHOOSE x \in S : TRUE
             rest == Reserved(P, S \ {a})
         IN  IF Len(P[a].gpus) > 0 THEN reserve_gpus(rest, EntryUsage(P[a]))
             ELSE rest
InitCleanup ==
    /\ smi = DeviceReadings
    /\ GPU_LOCK = "free"
    /\ lastCall = [seq |-> 0, required |-> 0, tool |-> "ok", ret |-> "none",
                   gpus |-> <<>>]
    /\ PROCESSES \in UNION {[S -> Registered] : S \in SUBSET Apps}
    /\ GPU_USAGE = Reserved(PROCESSES, DOMAIN PROCESSES)
    /\ routes = [a \in Apps |-> PortOf(a)]
    /\ proc \in [Apps -> [st : Live \cup {"none"}, port : Ports \cup {NoPort}]]
    /\ \A a \in Apps :
          IF a \in DOMAIN PROCESSES /\ PROCESSES[a].proc # "None"
          THEN proc[a].st \in Live /\ proc[a].port = PortOf(a)
          ELSE proc[a] = NoProc
    /\ rows \in {[a \in S |-> Row("running", PortOf(a), 0, NoGpus, 1)] :
                    S \in SUBSET Apps}
    /\ AVAILABLE_PORTS = Ports \ {PortOf(a) : a \in DOMAIN rows}
    /\ now = 0
    /\ requests = 0
    /\ ctlRun = [a \in Apps |-> [st |-> "idle", port |-> NoPort]]
    /\ agtReq = [a \in Apps |-> NoReq]
    /\ ctlStop = [a \in Apps |-> NoStop]
    /\ bar = [a \in Apps |-> NoReq]
    /\ orphans = {}
    /\ hb = [a \in Apps |-> FALSE]
    /\ rdy = [a \in Apps |-> "off"]
    /\ stopFinal = {}
    /\ lastUpload = NoUpload
    /\ px = NoProxy
    /\ cln = NoCleanup
    /\ det = NoBundle
NextCleanup ==
    \/ \E a \in Apps : StopEnter(a)
    \/ \E a \in Apps : DeletedEnter(a)
    \/ \E a \in Apps : ClnTerminate(a)
    \/ \E a \in Apps : ClnWait(a)
    \/ \E a \in Apps : ClnRelease(a)
    \/ \E a \in Apps : ClnDockerStop(a)
    \/ \E a \in Apps : ClnRemoveRoute(a)
    \/ \E a \in Apps : ClnNotify(a)
SpecCleanup == InitCleanup /\ [][NextCleanup]_vars

\* the supervisors of registered apps: each app is unregistered or registered
\* by build_and_run (a handle, or a compose project) or by the recovery (a
\* container, or a connectable port); its workload is up, its heartbeat
\* supervisor runs and so does the readiness prober build_and_run started, its
\* row is there or has been deleted
Supervised ==
    {Entry("proc", <<0>>, 1), Entry("compose", NoGpus, 0),
     Entry("container", NoGpus, 0), Entry("None", NoGpus, 0)}
InitHeartbeat ==
    /\ smi = DeviceReadings
    /\ GPU_LOCK = "free"
    /\ lastCall = [seq |-> 0, required |-> 0, tool |-> "ok", ret |-> "none",
                   gpus |-> <<>>]
    /\ PROCESSES \in UNION {[S -> Supervised] : S \in SUBSET Apps}
    /\ GPU_USAGE = Reserved(PROCESSES, DOMAIN PROCESSES)
    /\ routes = [a \in DOMAIN PROCESSES |-> PortOf(a)]
    /\ proc \in [Apps -> [st : Live \cup {"none"}, port : Ports \cup {NoPort}]]
    /\ \A a \in Apps :
          IF a \in DOMAIN PROCESSES
          THEN /\ proc[a].port = PortOf(a)
               /\ proc[a].st \in IF PROCESSES[a].proc = "None" THEN {"ready"}
                                 ELSE Live
          ELSE proc[a] = NoProc
    /\ rows \in {[a \in S |-> Row("running", PortOf(a), 0, NoGpus, 1)] :
                    S \in SUBSET Apps}
    /\ AVAILABLE_PORTS = Ports \ {PortOf(a) : a \in DOMAIN rows}
    /\ now = 0
    /\ requests = 0
    /\ ctlRun = [a \in Apps |-> [st |-> "idle", port |-> NoPort]]
    /\ agtReq = [a \in Apps |-> NoReq]
    /\ ctlStop = [a \in Apps |-> NoStop]
    /\ bar = [a \in Apps |-> NoReq]
    /\ orphans = {}
    /\ hb = [a \in Apps |-> a \in DOMAIN PROCESSES]
    /\ rdy = [a \in Apps |->
                IF a \notin DOMAIN PROCESSES THEN "off"
                ELSE IF PROCESSES[a].proc = "proc" THEN "polling"
                ELSE IF PROCESSES[a].proc = "compose" THEN "compose"
                ELSE "off"]
    /\ stopFinal = {}
    /\ lastUpload = NoUpload
    /\ px = NoProxy
    /\ cln = NoCleanup
    /\ det = NoBundle
NextHeartbeat ==
    \/ \E a \in Apps : HbStep(a)
    \/ \E a \in Apps : RdyStep(a)
    \/ \E a \in Apps : RdyComposeStep(a)
    \/ \E a \in Apps : ProcReady(a)
    \/ \E a \in Apps, rc \in {0, 1} : ProcExit(a, rc)
    \/ Tick
SpecHeartbeat == InitHeartbeat /\ [][NextHeartbeat]_vars

\* the agent's event loop goes on: every supervisor task gets its turn
SupervisorFairness ==
    \A a \in Apps :
        /\ WF_vars(HbStep(a))
        /\ WF_vars(RdyStep(a))
        /\ WF_vars(RdyComposeStep(a))
SpecProbe == InitHeartbeat /\ [][NextHeartbeat]_vars /\ SupervisorFairness

\* -------------------------------------------------- controller: startup
\* the module is loaded (AVAILABLE_PORTS = set(range(PORT_START, PORT_END)))
\* and startup_event removes the port of every row with status running and a
\* port. (startup_event_any_status: a variant that removes the port of every
\* row.)
startup_event_any_status(R, pool) ==
    pool \ {R[a].port : a \in DOMAIN R}
startup_event(R, pool) ==
    pool \ {R[a].port : a \in {x \in DOMAIN R : R[x].status = "running"
                                                /\ R[x].port # NoPort}}
CtlStartup ==
    /\ AVAILABLE_PORTS' = startup_event(rows, Ports)
    /\ ctlRun' = [a \in Apps |-> [st |-> "idle", port |-> NoPort]]
    /\ ctlStop' = [a \in Apps |-> NoStop]
    /\ UNCHANGED <<gpuVars, routes, rows, now, requests, agtReq, bar, proc,
                   orphans, hb, rdy, stopFinal, lastUpload, px, cln, det>>

\* app.db as an earlier controller process left it: rows in any status, with
\* or without a port
RowStatuses ==
    {"uploaded", "building", "running", "stopping", "stopped", "error",
     "finished"}
PersistedRows ==
    UNION {[S -> {Row(st, p, NoBeat, NoGpus, 1) :
                    st \in RowStatuses, p \in Ports \cup {NoPort}}] :
                S \in SUBSET Apps}
InitStartup == smi = DeviceReadings /\ InitAgent /\ rows \in PersistedRows
NextStartup == CtlStartup
SpecStartup == InitStartup /\ [][NextStartup]_vars

\* the type detection over every bundle of up to MaxFiles files
InitDetect == smi = DeviceReadings /\ InitRest
NextDetect == \E b \in Bundles : DetectType(b)
SpecDetect == InitDetect /\ [][NextDetect]_vars

\* --------------------------------------------------- system properties
Waiting(a) == ctlRun[a].st # "idle"

\* C1: concurrent port checkouts (upload, deploy_template, restart) against a
\* pool whose ports all pass the bind-probe: the port a caller receives differs
\* from the port of every other caller still in flight, it is not in the pool
\* afterwards and the pool loses no other port.
C1_CheckoutsDistinct ==
    [][\A a \in Apps :
        (~Waiting(a) /\ ctlRun'[a].st # "idle"
            /\ \A q \in AVAILABLE_PORTS : is_port_free(q))
        => /\ \A b \in Apps \ {a} : Waiting(b) => ctlRun[b].port # ctlRun'[a].port
           /\ ctlRun'[a].port \notin AVAILABLE_PORTS'
           /\ AVAILABLE_PORTS \ AVAILABLE_PORTS' \subseteq {ctlRun'[a].port}]_vars

\* C2: a row with status=running has a port of [PORT_START, PORT_END) that is
\* not in the free pool, and the route map maps the app to that port.
C2_RunningHasPortAndRoute ==
    \A a \in DOMAIN rows :
        rows[a].status = "running" =>
            /\ rows[a].port \in Ports
            /\ rows[a].port \notin AVAILABLE_PORTS
            /\ a \in DOMAIN routes
            /\ routes[a] = rows[a].port

\* C3: a row with status=running has a non-null port and a non-null
\* last_heartbeat.
C3_RunningHasPortAndBeat ==
    \A a \in DOMAIN rows :
        rows[a].status = "running" =>
            rows[a].port # NoPort /\ rows[a].last_heartbeat # NoBeat

\* C4: when a row takes the status error, finished or stopped (no restart of
\* the app being in flight), it no longer holds its port: the column is null
\* or the port is back in the pool.
EntersTerminal(a) ==
    /\ a \in DOMAIN rows /\ a \in DOMAIN rows'
    /\ rows[a].status \notin Terminal
    /\ rows'[a].status \in Terminal
    /\ ctlRun'[a].st = "idle"
C4_TerminalReleasedPort ==
    [][\A a \in Apps :
        EntersTerminal(a) =>
            \/ rows'[a].port = NoPort
            \/ rows'[a].port \in AVAILABLE_PORTS']_vars

\* C5: outside an allocate or release step, GPU_USAGE[g] is the sum of what
\* the entries of PROCESSES reserved on g (get_available_gpu never returns a
\* multi-GPU list, see C8, so every entry reserved vram_required on one gpu).
RECURSIVE ReservedBy(_, _)
ReservedBy(S, g) ==
    IF S = {} THEN 0
    ELSE LET a == CHOOSE x \in S : TRUE
             e == PROCESSES[a]
         IN  (IF Len(e.gpus) > 0 /\ e.gpus[1] = g THEN e.vram_required ELSE 0)
             + ReservedBy(S \ {a}, g)
Allocating == \E a \in Apps : agtReq[a].st \in {"alloc", "hung"}
C5_VramAccounting ==
    ~Allocating =>
        \A g \in Gpus : Get(GPU_USAGE, g) = ReservedBy(DOMAIN PROCESSES, g)

\* C11: every entry of the route map belongs to an app that has a row with
\* status running or an entry in PROCESSES (a /run or /restart handler that has
\* written the route and not yet registered the entry is not looked at).
Registering(a) == agtReq[a].st = "alloc"
C11_RouteHasOwner ==
    \A a \in DOMAIN routes :
        ~Registering(a) =>
            \/ a \in DOMAIN rows /\ rows[a].status = "running"
            \/ a \in DOMAIN PROCESSES

\* C12: once the agent's /stop has completed for an app and no /restart has
\* been issued since, the agent holds no ProcessEntry and no route for the app
\* and the app's row is not building or running.
C12_StopIsFinal ==
    \A a \in stopFinal :
        /\ a \notin DOMAIN PROCESSES
        /\ a \notin DOMAIN routes
        /\ a \in DOMAIN rows => rows[a].status \notin {"building", "running"}

\* C13: a watchdog pass takes an app exactly when its row is running with a
\* last_heartbeat that is null or older than now - 60; the row then has status
\* error, gpus null and port null with the port back in the pool, and the
\* agent's /stop is called; when that call fails the watchdog goes on to
\* /remove_route, which removes the app's route at an agent that answers.
WatchdogTakes(a) == ctlStop[a].by # "watchdog" /\ ctlStop'[a].by = "watchdog"
C14_ErrorSticky ==
    [][\A a \in Apps :
        (/\ a \in DOMAIN rows /\ rows[a].status = "error"
         /\ a \in DOMAIN rows'
         /\ ctlRun[a].st = "idle")
        => rows'[a].status \in {"error", "stopping"}]_vars

\* C15: a stop request sets the row to stopping and leaves the agent's state
\* as it is (the call to the agent is made by the background task), and a row
\* in status stopping leads to that row being stopped or error with its port
\* column released, unless the row has been deleted.
StopRequested(a) == ctlStop[a].st = "idle" /\ ctlStop'[a] = [st |-> "sent", by |-> "task"]
Converged(a) ==
    \/ a \notin DOMAIN rows
    \/ rows[a].status \in {"stopped", "error"} /\ rows[a].port = NoPort
C15_StoppingConverges ==
    /\ [][\A a \in Apps :
            StopRequested(a) =>
                /\ rows'[a].status = "stopping"
                /\ UNCHANGED <<PROCESSES, GPU_USAGE, routes, proc>>]_vars
    /\ \A a \in Apps :
            (a \in DOMAIN rows /\ rows[a].status = "stopping") ~> Converged(a)
C15_Witness ==
    \E a \in Apps :
        /\ a \in stopFinal /\ a \in DOMAIN rows
        /\ rows[a].status = "stopped" /\ rows[a].port = NoPort
        /\ proc[a].st = "exit1" /\ proc[a].port \in AVAILABLE_PORTS

\* C16: when a callback of the agent for an app (the readiness update, a
\* heartbeat, the final status update) is answered 404, then after the agent's
\* step the app's workload no longer runs, the app has no route and no entry
\* in PROCESSES, the reservation of the entry is released, and a heartbeat
\* loop that got the 404 has ended.
Got404(a) ==
    /\ a \notin DOMAIN rows
    /\ \/ RdyStep(a) /\ proc[a].st = "ready"
       \/ HbStep(a) /\ a \in DOMAIN PROCESSES
EntryReleased(a) ==
    a \in DOMAIN PROCESSES =>
        \A g \in Gpus :
            Get(GPU_USAGE', g) =
                IF g \in DOMAIN EntryUsage(PROCESSES[a])
                        /\ Get(GPU_USAGE, g) > PROCESSES[a].vram_required
                THEN Get(GPU_USAGE, g) - PROCESSES[a].vram_required
                ELSE IF g \in DOMAIN EntryUsage(PROCESSES[a]) THEN 0
                ELSE Get(GPU_USAGE, g)
C16_DeletionSignal ==
    [][\A a \in Apps :
        Got404(a) =>
            /\ proc'[a].st \notin Live
            /\ a \notin DOMAIN routes'
            /\ a \notin DOMAIN PROCESSES'
            /\ EntryReleased(a)
            /\ HbStep(a) => ~hb'[a]]_vars

\* C17: for an app without a row, /update_status (any status, any gpus) and
\* /heartbeat answer 404 and leave the rows and the port pool as they are; so
\* an agent step that posts a callback for such an app changes neither.
CallbackStatuses == {"building", "running", "error", "finished", "stopped"}
Untouched(c) ==
    c.code = 404 /\ c.rows = rows /\ c.pool = AVAILABLE_PORTS
C17_UnknownAppCallbacks ==
    /\ [](\A a \in Apps \ DOMAIN rows :
            /\ \A st \in CallbackStatuses, g \in {NoGpus, <<0>>} :
                    Untouched(update_status(Ctl, a, st, g, now))
            /\ Untouched(heartbeat(Ctl, a, now)))
    /\ [][\A a \in Apps : Got404(a) => UNCHANGED <<rows, AVAILABLE_PORTS>>]_vars
C17_Witness ==
    \E a \in Apps :
        /\ a \notin DOMAIN rows
        /\ a \notin stopFinal /\ ctlStop[a] = NoStop
        /\ proc[a].st = "exit1" /\ ~hb[a] /\ rdy[a] = "polling"
        /\ a \notin DOMAIN PROCESSES

\* C18: on an existing row, /update_status writes last_heartbeat = now when
\* the status is running and leaves last_heartbeat as it was for every other
\* status; /heartbeat writes last_heartbeat = now and changes nothing else, in
\* particular not the status, the port or the gpus of the app, nor any other
\* row, nor the port pool. The same on the agent's steps that post them.
BeatAfter(c, a) == c.rows[a].last_heartbeat
OnlyBeat(c, a) ==
    /\ c.code = 200
    /\ c.rows = Put(rows, a, [rows[a] EXCEPT !.last_heartbeat = now])
    /\ c.pool = AVAILABLE_PORTS
PostsHeartbeat(a) ==
    /\ HbStep(a) /\ a \in DOMAIN PROCESSES /\ HbRunning(a)
    /\ a \in DOMAIN rows
C18_HeartbeatFrame ==
    /\ [](\A a \in DOMAIN rows :
            /\ \A st \in CallbackStatuses, g \in {NoGpus, <<0>>} :
                    BeatAfter(update_status(Ctl, a, st, g, now), a) =
                        IF st = "running" THEN now ELSE rows[a].last_heartbeat
            /\ OnlyBeat(heartbeat(Ctl, a, now), a))
    /\ [][\A a \in Apps :
            PostsHeartbeat(a) =>
                /\ rows' = Put(rows, a, [rows[a] EXCEPT !.last_heartbeat = now])
                /\ UNCHANGED AVAILABLE_PORTS]_vars
C18_Witness ==
    \E a \in DOMAIN rows :
        /\ rows[a].status = "stopping"
        /\ now > 0 /\ rows[a].last_heartbeat = now
        /\ hb[a] /\ a \in DOMAIN PROCESSES

\* C19: when the allocation of a /run or /restart request for an app fails,
\* then after the handler the app has no route, its row (if any) has status
\* error, and the app has no entry in PROCESSES, hence no reservation.
AllocFails(a) ==
    /\ \E tool \in {"ok", "fail"} : AgentRunAlloc(a, tool)
    /\ agtReq'[a] = NoReq
C19_AllocFailureCleans ==
    [][\A a \in Apps :
        AllocFails(a) =>
            /\ a \notin DOMAIN routes'
            /\ a \in DOMAIN rows' => rows'[a].status = "error"
            /\ a \notin DOMAIN PROCESSES']_vars

\* C20: /stop for an app that has no entry in PROCESSES answers 404 and leaves
\* PROCESSES, GPU_USAGE and the route map as they are, and posts no status
\* callback: the rows and the port pool are as before when the handler
\* answers, and a caller that writes nothing itself on a 404 (the watchdog)
\* finds them unchanged.
StopUnknown(a) == AgentStopBegin(a) /\ a \notin DOMAIN PROCESSES
C20_StopUnknown ==
    /\ [](\A a \in Apps \ DOMAIN PROCESSES :
            stop_app_unknown(PROCESSES, GPU_USAGE, routes, Ctl, a) =
                [procs |-> PROCESSES, usage |-> GPU_USAGE, routes |-> routes,
                 ctl |-> Ctl, code |-> 404])
    /\ [][\A a \in Apps :
            StopUnknown(a) =>
                /\ UNCHANGED <<PROCESSES, GPU_USAGE, routes, proc>>
                /\ ctlStop[a].by = "watchdog" =>
                        UNCHANGED <<rows, AVAILABLE_PORTS>>]_vars
C20_Witness ==
    \E a \in Apps :
        /\ ctlStop[a] = [st |-> "fallback", by |-> "watchdog"]
        /\ a \notin DOMAIN PROCESSES
        /\ a \in DOMAIN rows /\ rows[a].status = "error"

\* C21: a build of an app is enqueued only by a /run or /restart handler that
\* has got past add_route, that handler's first statement; the handler's
\* request leaves the state "sent" with the route of the app written for the
\* port of the request; and the build, load or run subprocesses are started
\* only by the enqueued build.
C21_RouteBeforeBuild ==
    [][\A a \in Apps :
        /\ (agtReq[a].st = "sent" /\ agtReq'[a].st \in {"alloc", "hung"})
                => a \in DOMAIN routes' /\ routes'[a] = agtReq[a].port
        /\ (agtReq[a].st # "alloc" /\ agtReq'[a].st = "alloc")
                => agtReq[a].st = "sent"
        /\ (bar[a].st = "none" /\ bar'[a].st # "none")
                => agtReq[a].st = "alloc" /\ bar'[a].st = "start"
        /\ (bar[a].st # "building" /\ bar'[a].st = "building")
                => bar[a].st = "start"
        /\ (proc[a].st \notin Live /\ proc'[a].st \in Live)
                => bar[a].st = "building"]_vars
C21_Witness ==
    \E a \in Apps :
        /\ bar[a].st = "building"
        /\ a \in DOMAIN routes /\ routes[a] = bar[a].port

\* C22: a row becomes running (the agent's status=running callback is the
\* only writer of that status) only on a step before which the app's port
\* answered: something listens on it.
BecomesRunning(a) ==
    /\ a \in DOMAIN rows /\ a \in DOMAIN rows'
    /\ rows[a].status # "running"
    /\ rows'[a].status = "running"
C22_RunningAfterProbe ==
    [][\A a \in Apps : BecomesRunning(a) => ~is_port_free(proc[a].port)]_vars

\* C24: an upload that finds a free port in the pool leaves a new row with
\* status uploaded (or, the agent having accepted, building) that holds the
\* port checked out.
HasFreePort == \E p \in AVAILABLE_PORTS : is_port_free(p)
UploadTakes(p) == Upload /\ p \in AVAILABLE_PORTS /\ p \notin AVAILABLE_PORTS'
                         /\ is_port_free(p)
C24_UploadWritesRow ==
    [][\A p \in Ports :
        UploadTakes(p) =>
            \E a \in DOMAIN rows' \ DOMAIN rows :
                /\ rows'[a].status \in {"uploaded", "building"}
                /\ rows'[a].port = p]_vars

\* C25: an upload that has checked out a port and whose /run is not accepted
\* by the agent (no request of it is with the agent afterwards) has put the
\* port back into the pool and left its row in status error, answering 502,
\* 504 or 500.
C25_UploadFailureReleases ==
    [][\A p \in Ports :
        (UploadTakes(p) /\ UNCHANGED agtReq) =>
            /\ p \in AVAILABLE_PORTS'
            /\ \E a \in DOMAIN rows' \ DOMAIN rows :
                    rows'[a].status = "error"
            /\ lastUpload' \in {500, 502, 504}]_vars

\* C26: an upload with an empty pool, or with a pool none of whose ports
\* passes the bind-probe, answers 503, writes no row and does not call the
\* agent.
C26_NoCapacity ==
    /\ [](~HasFreePort =>
            \A o \in upload_app(Ctl) :
                o.code = 503 /\ o.rows = rows /\ ~o.called)
    /\ [][(Upload /\ ~HasFreePort) =>
            /\ lastUpload' = 503
            /\ UNCHANGED <<rows, routes, PROCESSES, GPU_USAGE, ctlRun, agtReq,
                           bar, proc>>]_vars
C26_Witness ==
    /\ lastUpload = 503
    /\ AVAILABLE_PORTS = {}
    /\ \E p \in Ports : ~is_port_free(p)

\* C27: no two rows of the apps table have the same name, whatever uploads,
\* template deployments, edits and deletions have been done.
C27_NamesUnique ==
    \A a, b \in DOMAIN rows : rows[a].name = rows[b].name => a = b
C27_Witness ==
    /\ DOMAIN rows = Apps
    /\ rows["a1"].name = StoredNames["a2"]
    /\ lastUpload # NoUpload

\* C23: every agent cleanup (/stop and the deleted-app cleanup) takes its steps
\* in the order terminate process, container stop, remove route, release
\* VRAM, notify controller, drop registry entry; in particular, once the
\* reservation and the registry entry of an app are released, its process has
\* been terminated and its route removed.
CleanupRank(step) ==
    CASE step = "terminate" -> 1
      [] step = "container_stop" -> 2
      [] step = "remove_route" -> 3
      [] step = "release_vram" -> 4
      [] step = "notify" -> 5
      [] step = "drop_entry" -> 6
InClaimedOrder(steps) ==
    \A i, j \in 1 .. Len(steps) :
        i < j => CleanupRank(steps[i]) <= CleanupRank(steps[j])
C23_CleanupOrder ==
    \A a \in Apps :
        cln[a].entry # NoEntry =>
            /\ InClaimedOrder(cln[a].steps)
            /\ a \notin DOMAIN PROCESSES =>
                    proc[a].st \notin Live /\ a \notin DOMAIN routes

\* C31: every failure exit of build_and_run (port busy at the pre-check, build,
\* load or compose-up exiting non-zero, missing compose file, no entry file,
\* venv or requirements install failing) leaves the route removed, the
\* registry entry dropped and the reservation released, also when the error
\* callback fails; when the callback reaches the controller the row is error.
BarFails(a, posted) ==
    \/ BarPrecheckAs(a, posted) /\ ~is_port_free(bar[a].port)
    \/ \E exit \in BuildExits : BarExit(a, exit, posted)
C31_BuildFailureCleans ==
    [][\A a \in Apps, posted \in BOOLEAN :
        BarFails(a, posted) =>
            /\ a \notin DOMAIN routes'
            /\ a \notin DOMAIN PROCESSES'
            /\ GPU_USAGE' = release_process_entry(PROCESSES, GPU_USAGE, a).usage
            /\ posted /\ a \in DOMAIN rows => rows'[a].status = "error"]_vars

\* C32: an iteration of the heartbeat supervisor that finds the workload dead
\* reports finished if the exit code is zero and error otherwise, removes the
\* route, releases the reservation, drops the entry and ends the loop; one
\* that finds it alive sends a heartbeat and does none of these.
HbIteration(a) == HbStep(a) /\ a \in DOMAIN PROCESSES /\ a \in DOMAIN rows
C32_HeartbeatFinalStatus ==
    [][\A a \in Apps :
        HbIteration(a) =>
            IF proc[a].st \in Live
            THEN /\ rows' = heartbeat(Ctl, a, now).rows
                 /\ hb'[a]
                 /\ UNCHANGED <<routes, PROCESSES, GPU_USAGE>>
            ELSE /\ rows'[a].status =
                        IF proc[a].st = "exit0" THEN "finished" ELSE "error"
                 /\ a \notin DOMAIN routes'
                 /\ a \notin DOMAIN PROCESSES'
                 /\ GPU_USAGE' =
                        release_process_entry(PROCESSES, GPU_USAGE, a).usage
                 /\ ~hb'[a]]_vars

\* C33: every per-app polling loop of the agent (HTTP readiness prober,
\* compose readiness prober, heartbeat supervisor) ends once the app's
\* process has exited: no loop polls forever for a workload that is gone.
C33_PollingEnds ==
    \A a \in Apps :
        (proc[a].st \notin Live) ~> (rdy[a] = "off" /\ ~hb[a])

\* C34: the startup recovery, for a route not yet in the registry: when the
\* app's container runs or its port accepts a connection, a skeleton entry
\* (no handle) is written, the heartbeat supervisor started, running reported
\* to the controller and the route kept; when neither, the route is removed
\* and no entry written. The entries of the other apps are left as they are.
C34_RecoveryReconciles ==
    [][\A a \in Apps, docker \in BOOLEAN :
        RecoverApp(a, docker) =>
            /\ IF (docker /\ proc[a].st \in Live) \/ ~is_port_free(routes[a])
               THEN /\ a \in DOMAIN PROCESSES'
                    /\ PROCESSES'[a].proc \in {"None", "container"}
                    /\ hb'[a]
                    /\ a \in DOMAIN rows => rows'[a].status = "running"
                    /\ routes' = routes
               ELSE /\ a \notin DOMAIN routes'
                    /\ a \notin DOMAIN PROCESSES'
                    /\ ~hb'[a]
                    /\ rows' = rows
            /\ \A b \in DOMAIN PROCESSES :
                    b \in DOMAIN PROCESSES' /\ PROCESSES'[b] = PROCESSES[b]]_vars
C34_Witness ==
    \E a, b \in Apps :
        /\ a \in DOMAIN PROCESSES /\ PROCESSES[a].proc = "None" /\ hb[a]
        /\ a \in DOMAIN routes /\ a \in DOMAIN rows
        /\ rows[a].status = "running"
        /\ b \notin DOMAIN routes /\ b \notin DOMAIN PROCESSES
        /\ proc[b].st = "exit1" /\ ~hb[b]

\* C35: after the controller's startup, no port recorded in a row with status
\* running is in the free pool and every other port of the range is.
C35_StartupPool ==
    [][CtlStartup =>
        \A p \in Ports :
            p \in AVAILABLE_PORTS' <=>
                ~\E a \in DOMAIN rows :
                    rows[a].status = "running" /\ rows[a].port = p]_vars
C35_Witness ==
    \E a, b \in DOMAIN rows :
        /\ rows[a].status = "running" /\ rows[a].port \in Ports
        /\ rows[a].port \notin AVAILABLE_PORTS
        /\ rows[b].status = "building" /\ rows[b].port \in AVAILABLE_PORTS

\* C36: the detected type follows strict precedence: .tar gives the image
\* archive; else a compose file anywhere in the bundle gives compose, also
\* when a Dockerfile is present; else a Dockerfile gives the container build;
\* else source. The order in which the files are listed does not matter.
Has(files, names) == \E i \in 1 .. Len(files) : lower(files[i]) \in names
C36_KindPrecedence ==
    det.app_type # "none" =>
        det.app_type =
            IF det.tar THEN "docker_tar"
            ELSE IF Has(det.files, ComposeNames) THEN "docker_compose"
            ELSE IF Has(det.files, {"dockerfile"}) THEN "docker"
            ELSE "gradio"

\* C39: no port is held twice: no two rows whose status is uploaded, building,
\* running or stopping record the same port, and no port recorded by such a
\* row is in the free pool.
Holding == {"uploaded", "building", "running", "stopping"}
Holders == {a \in DOMAIN rows : rows[a].status \in Holding
                                 /\ rows[a].port # NoPort}
C39_PortHeldOnce ==
    /\ \A a, b \in Holders : rows[a].port = rows[b].port => a = b
    /\ \A a \in Holders : rows[a].port \notin AVAILABLE_PORTS

\* C40: a delete is eventually honoured by the agent: once the row of an app
\* has been deleted, whatever its status was, and while the agent keeps
\* running, the agent eventually holds no registry entry and no route for it
\* (its reservation goes with the entry).
Deleted(a) == a \notin DOMAIN rows
Forgotten(a) == a \notin DOMAIN PROCESSES /\ a \notin DOMAIN routes
InBlock(t) == px.th[t].pc \in {"locked", "loaded", "saved", "generated", "leaving"}
Quiet == \A t \in Threads : ~InBlock(t)
LastTwoSame ==
    /\ Len(px.order) >= 2
    /\ px.order[Len(px.order)] = px.order[Len(px.order) - 1]

\* C28: add_route with given arguments, applied to the map that a first call
\* with the same arguments left, changes nothing (map and generated config);
\* add_route for any id sets that id's entry to exactly the port and the
\* optional keys of the call and leaves every other entry as it was. And a
\* call that repeats the call before it saves the document it found.
C28_AddRouteIdempotent ==
    /\ [](\A c \in RouteCalls :
            c.op = "add" =>
                LET D1 == ApplyCall(px.doc, c)
                IN  /\ ApplyCall(D1, c) = D1
                    /\ generate_config(ApplyCall(D1, c)) = generate_config(D1)
                    /\ DOMAIN D1 = DOMAIN px.doc \cup {c.id}
                    /\ D1[c.id] = RouteInfo(c.port, c.allow_ips, c.auth_header)
                    /\ \A y \in DOMAIN px.doc \ {c.id} : D1[y] = px.doc[y])
    /\ [][\A t \in Threads :
            (PxSave(t) /\ px.th[t].call.op = "add" /\ LastTwoSame)
                => px'.doc = px.doc]_vars
C28_Witness ==
    /\ Quiet
    /\ LastTwoSame
    /\ px.order[1].op = "add" /\ px.order[1].allow_ips # NoIps
    /\ px.order[2].op = "add" /\ px.order[2].id = px.order[1].id
    /\ px.order[2].allow_ips = NoIps
    /\ Len(px.order) = MaxRouteCalls
    /\ \A t \in Threads : px.th[t].pc = "done"

\* C29: remove_route for an id that is not in the routes document leaves the
\* document and the config as they are: nothing is saved, generate_config is
\* not run and the proxy is not reloaded.
RemovesUnknown(t) ==
    /\ px.th[t].pc = "loaded"
    /\ px.th[t].call.op = "remove"
    /\ px.th[t].call.id \notin DOMAIN px.th[t].map
C29_RemoveUnknownNoop ==
    /\ [](\A x \in RouteIds \ DOMAIN px.doc :
            remove_route_map(px.doc, x) = [map |-> px.doc, written |-> FALSE])
    /\ [](\A t \in Threads :
            ~px.th[t].wrote => ~px.th[t].generated /\ ~px.th[t].reloaded)
    /\ [][\A t \in Threads :
            (PxSave(t) /\ RemovesUnknown(t))
                => /\ px'.doc = px.doc /\ px'.conf = px.conf
                   /\ ~px'.th[t].wrote
                   /\ px'.th[t].pc = "leaving"]_vars
C29_Witness ==
    \E t \in Threads :
        /\ px.th[t].pc = "done"
        /\ px.th[t].call.op = "remove"
        /\ px.doc # EmptyDict
        /\ ~px.th[t].wrote /\ ~px.th[t].generated /\ ~px.th[t].reloaded

\* C30: at most one caller is inside the with block; whenever no caller is
\* inside, the routes document is the result of applying the calls made so
\* far one after the other, in the order in which they took the lock, and the
\* config is the one generated from that document; and generate_config runs
\* in a call only after that call saved the document, on the map it saved.
C30_RoutesSerialized ==
    /\ [](\A t, u \in Threads : (InBlock(t) /\ InBlock(u)) => t = u)
    /\ [](Quiet =>
            /\ px.doc = ApplyAll(EmptyDict, px.order)
            /\ px.conf = generate_config(px.doc))
    /\ [][\A t \in Threads :
            PxGenerate(t) =>
                /\ px.th[t].wrote
                /\ px.doc = px.th[t].map
                /\ px'.conf = generate_config(px.doc)]_vars
C30_Witness ==
    \E t, u \in Threads :
        /\ px.th[t].pc = "waiting" /\ px.th[u].pc = "done"
        /\ Len(px.order) = 2
        /\ px.th[t].call.id = px.order[1].id
        /\ px.order[1].op = "add" /\ px.order[2].op = "add"
        /\ px.order[1].id # px.order[2].id
        /\ DOMAIN px.doc = RouteIds

\* ---------------------------------------------- allocator-level behaviour
\* get_available_gpu followed by the registration of agent.py:321-326
GpuAllocate(a, required, tool) ==
    /\ GPU_LOCK = "free"
    /\ a \notin DOMAIN PROCESSES
    /\ LET r == get_available_gpu(GPU_USAGE, smi, required, tool)
       IN  /\ GPU_USAGE' = r.usage
           /\ GPU_LOCK' = IF r.ret = "blocked" THEN "held" ELSE "free"
           /\ PROCESSES' = IF r.ret = "gpus"
                           THEN Put(PROCESSES, a, Entry("None", r.gpus, required))
                           ELSE PROCESSES
           /\ lastCall' = [seq |-> 1 - lastCall.seq, required |-> required,
                           tool |-> tool, ret |-> r.ret, gpus |-> r.gpus]
    /\ UNCHANGED <<smi, sysVars>>

GpuRelease(a) ==
    /\ GPU_LOCK = "free"
    /\ a \in DOMAIN PROCESSES
    /\ LET r == release_process_entry(PROCESSES, GPU_USAGE, a)
       IN  /\ PROCESSES' = r.procs
           /\ GPU_USAGE' = r.usage
    /\ UNCHANGED <<smi, GPU_LOCK, lastCall, sysVars>>

SmiReadings == [Gpus -> {[total |-> GpuTotal, used |-> u] : u \in 0 .. GpuTotal}]

InitGpu == smi \in SmiReadings /\ InitRest

NextGpu ==
    \/ \E a \in Apps, required \in 0 .. MaxVram, tool \in {"ok", "fail", "empty"} :
            GpuAllocate(a, required, tool)
    \/ \E a \in Apps : GpuRelease(a)

SpecGpu == InitGpu /\ [][NextGpu]_vars

\* the allocator called with any vram_required the request model admits (an
\* int, not validated): negative, zero, positive
NextGpuAny ==
    \/ \E a \in Apps, required \in -1 .. MaxVram, tool \in {"ok", "fail", "empty"} :
            GpuAllocate(a, required, tool)
    \/ \E a \in Apps : GpuRelease(a)

SpecGpuAny == InitGpu /\ [][NextGpuAny]_vars

\* ------------------------------------------------- allocator properties
\* what a gpu can still give, from the device readings and the reservations
ClaimFree(g) == smi[g].total - smi[g].used - Get(GPU_USAGE, g)
FitsOn(required) == {g \in Gpus : ClaimFree(g) >= required}
Lowest(S) == CHOOSE g \in S : \A h \in S : g <= h
RECURSIVE TotalFreeOver(_)
TotalFreeOver(S) ==
    IF S = {} THEN 0
    ELSE LET g == Lowest(S)
         IN  (IF ClaimFree(g) > 0 THEN ClaimFree(g) ELSE 0) + TotalFreeOver(S \ {g})
TotalFree == TotalFreeOver(Gpus)
IsCall == lastCall'.seq # lastCall.seq

\* C6: with fixed device readings, after any interleaving of allocations and
\* matching releases no gpu is reserved beyond total - used.
C6_NoOverSubscription ==
    \A g \in Gpus : Get(GPU_USAGE, g) <= smi[g].total - smi[g].used
C6_Witness ==
    /\ \E g \in Gpus : Get(GPU_USAGE, g) = smi[g].total - smi[g].used
                        /\ Get(GPU_USAGE, g) > 0
    /\ DOMAIN PROCESSES # {}
    /\ lastCall.ret = "none" /\ lastCall.required > 0 /\ lastCall.tool = "ok"

\* C7: required > 0 and some gpu with free >= required: the call returns
\* exactly the lowest such index, adds required there and nothing elsewhere.
C7_SingleGpuFirstFit ==
    [][(IsCall /\ lastCall'.tool = "ok" /\ lastCall'.required > 0
            /\ FitsOn(lastCall'.required) # {})
        => LET i == Lowest(FitsOn(lastCall'.required))
           IN  /\ lastCall'.ret = "gpus"
               /\ lastCall'.gpus = <<i>>
               /\ Get(GPU_USAGE', i) = Get(GPU_USAGE, i) + lastCall'.required
               /\ \A g \in Gpus \ {i} : Get(GPU_USAGE', g) = Get(GPU_USAGE, g)]_vars
C7_Witness ==
    /\ lastCall.ret = "gpus" /\ lastCall.required > 0
    /\ lastCall.gpus = <<1>>
    /\ smi[0].total - smi[0].used - Get(GPU_USAGE, 0) > 0
    /\ Get(GPU_USAGE, 1) = lastCall.required

\* C8: required > 0, no single gpu fits, the candidates' free capacity sums to
\* at least required: the call returns the gpus visited in index order, each
\* reserved by min(free, remaining), the increments summing to required.
GreedyShare(g, required) ==
    LET remaining == required - TotalFreeOver({h \in Gpus : h < g})
        free == IF ClaimFree(g) > 0 THEN ClaimFree(g) ELSE 0
    IN  IF remaining <= 0 THEN 0
        ELSE IF remaining < free THEN remaining ELSE free
C8_GreedyMultiGpu ==
    [][(IsCall /\ lastCall'.tool = "ok" /\ lastCall'.required > 0
            /\ FitsOn(lastCall'.required) = {}
            /\ TotalFree >= lastCall'.required)
        => /\ lastCall'.ret = "gpus"
           /\ lastCall'.gpus =
                 SelectSeq(IndexSeq, LAMBDA g : GreedyShare(g, lastCall'.required) > 0)
           /\ \A g \in Gpus : Get(GPU_USAGE', g) =
                 Get(GPU_USAGE, g) + GreedyShare(g, lastCall'.required)]_vars

\* C9: required above the total free capacity, or the query tool failing or
\* listing no gpu: the call returns None and GPU_USAGE is what it was.
C9_FailureKeepsUsage ==
    [][(IsCall /\ (lastCall'.tool # "ok" \/ lastCall'.required > TotalFree))
        => /\ lastCall'.ret = "none"
           /\ GPU_USAGE' = GPU_USAGE]_vars
C9_Witness ==
    /\ lastCall.ret = "none" /\ lastCall.tool = "ok"
    /\ lastCall.required = TotalFree + 1
    /\ Cardinality({g \in Gpus : ClaimFree(g) > 0}) = 2
    /\ GPU_USAGE # EmptyDict

\* C10: from an empty GPU_USAGE, once every registered entry has been removed
\* through release_process_entry, GPU_USAGE is empty again.
C10_CleanupRestores ==
    PROCESSES = EmptyDict => GPU_USAGE = EmptyDict
C10_Witness ==
    /\ PROCESSES = EmptyDict /\ GPU_USAGE = EmptyDict
    /\ lastCall.ret = "gpus" /\ lastCall.required > 0

\* C37: required <= 0: when some gpu has free > 0 the call returns exactly the
\* lowest-index such gpu, when none has it returns None; GPU_USAGE is left as
\* it is in both cases.
HasFree == {g \in Gpus : ClaimFree(g) > 0}
C37_NoRequirement ==
    [][(IsCall /\ lastCall'.tool = "ok" /\ lastCall'.required <= 0)
        => /\ GPU_USAGE' = GPU_USAGE
           /\ IF HasFree # {}
              THEN lastCall'.ret = "gpus" /\ lastCall'.gpus = <<Lowest(HasFree)>>
              ELSE lastCall'.ret = "none"]_vars
C37_Witness ==
    /\ lastCall.required < 0 /\ lastCall.tool = "ok"
    /\ lastCall.ret = "gpus" /\ lastCall.gpus = <<1>>
    /\ ClaimFree(0) <= 0 /\ Get(GPU_USAGE, 0) > 0
C37_WitnessNone ==
    /\ lastCall.required = 0 /\ lastCall.tool = "ok"
    /\ lastCall.ret = "none" /\ HasFree = {} /\ GPU_USAGE # EmptyDict

\* C38: get_available_gpu is deadlock-free: whatever was required and whatever
\* the gpus' state, the call has returned (a gpu list or None) and GPU_LOCK is
\* free afterwards, the multi-gpu path included.
C38_AllocatorReturns ==
    /\ GPU_LOCK = "free"
    /\ lastCall.ret \in {"gpus", "none"}

====
